---------------------------- MODULE Spec2Model ----------------------------
(***************************************************************************)
(* A model of the ezcp finite-domain constraint solver: the reversible     *)
(* integer domains (single word and block bitset), the Variable facade     *)
(* with its listener tables, the propagators of cmp.rs / reify.rs /        *)
(* alldifferent.rs, the depth-first Search engine of search.rs, and the    *)
(* no_sum test of binpacking.rs.                                           *)
(*                                                                         *)
(* A 64-bit word is modelled as the set of its set bit positions (a subset *)
(* of 0..63): popcount is Cardinality, trailing_zeros is the minimum,      *)
(* leading_zeros is 63 minus the maximum, xor is the symmetric difference. *)
(***************************************************************************)
EXTENDS Integers, Sequences, FiniteSets, TLC

VARIABLES
    \* ---- domain harness (DomSpec) ----
    sd,        \* a SmallDomain
    bd,        \* a BitsetDomain
    snaps,     \* ghost: per representation, the observable state at each open checkpoint
    dlast,     \* ghost: the last domain operation and its outcome
    args,      \* arguments of a call of a free function or of one propagate()
    result,    \* what that call returned
    model,     \* the variables, constraints, objective and Config given to Search::new
    search,    \* the Search, the variables and the SearchState it drives,
               \* and the position of the running next() call
    hist,      \* ghost: what each next() call returned
    entered    \* ghost: per stack frame, the propagator list when it was entered

domVars == <<sd, bd, snaps, dlast>>
callVars == <<args, result>>
searchVars == <<model, search, hist, entered>>

vars == <<sd, bd, snaps, dlast, args, result, model, search, hist, entered>>

\* no call in progress
CallIdle == args = [fn |-> "none"] /\ result = [done |-> FALSE]
\* no search built
SearchIdle ==
    model = [none |-> TRUE] /\ search = [pc |-> "none"] /\ hist = <<>> /\ entered = <<>>
\* no domain under test
DomIdle == sd = <<>> /\ bd = <<>> /\ snaps = <<>> /\ dlast = [op |-> "none"]

-----------------------------------------------------------------------------
(* Bounds of the model *)

\* deepest nesting of checkpoints explored by the domain harness
MaxLevels == 2

(* Program constants *)

\* width of one block / of the single word
BlockBits == 64

-----------------------------------------------------------------------------
(* Words as sets of bit positions *)

SetMin(S) == CHOOSE x \in S : \A y \in S : x <= y
SetMax(S) == CHOOSE x \in S : \A y \in S : x >= y

\* u64::trailing_zeros, u64::leading_zeros, u64::count_ones
TrailingZeros(w) == IF w = {} THEN BlockBits ELSE SetMin(w)
LeadingZeros(w) == IF w = {} THEN BlockBits ELSE (BlockBits - 1) - SetMax(w)
CountOnes(w) == Cardinality(w)
Xor(a, b) == (a \ b) \cup (b \ a)

\* DomainState; every path that returns Failed has called solver_state.fail()
Same == "Same"
Modified == "Modified"
Failed == "Failed"

Res(d, st) == [dom |-> d, state |-> st]

-----------------------------------------------------------------------------
(* SmallDomain (domain.rs) *)

SmallDomain_new(lb, ub) ==
    [body |-> 0..(ub - lb), start |-> lb, lb |-> 0, ub |-> ub - lb,
     checkpoints |-> <<>>]

SmallDomain_assign(d, x) ==
    IF x < d.start \/ x >= d.start + BlockBits THEN Res(d, Failed)
    ELSE LET v == x - d.start IN
         IF v \notin d.body THEN Res(d, Failed)
         ELSE Res([d EXCEPT !.body = {v}, !.lb = v, !.ub = v],
                  IF d.body # {v} THEN Modified ELSE Same)

SmallDomain_is_assigned(d) == CountOnes(d.body) = 1

SmallDomain_possible(d, x) ==
    IF x < d.start \/ x >= d.start + BlockBits THEN FALSE
    ELSE (x - d.start) \in d.body

\* remove that flips the bit of x instead of clearing it
SmallDomain_remove_toggle(d, x) ==
    IF x < d.start \/ x >= d.start + BlockBits THEN Res(d, Same)
    ELSE LET v == x - d.start
             body == Xor(d.body, {v})
         IN  IF body = {} THEN Res([d EXCEPT !.body = body], Failed)
             ELSE Res([d EXCEPT !.body = body,
                                !.lb = TrailingZeros(body),
                                !.ub = (BlockBits - 1) - LeadingZeros(body)],
                      Modified)

SmallDomain_remove(d, x) ==
    IF x < d.start \/ x >= d.start + BlockBits THEN Res(d, Same)
    ELSE LET v == x - d.start
             modified == v \in d.body
             body == d.body \ {v}
         IN  IF body = {} THEN Res([d EXCEPT !.body = body], Failed)
             ELSE Res([d EXCEPT !.body = body,
                                !.lb = IF v = d.lb THEN TrailingZeros(body) ELSE @,
                                !.ub = IF v = d.ub THEN (BlockBits - 1) - LeadingZeros(body)
                                       ELSE @],
                      IF modified THEN Modified ELSE Same)

SmallDomain_get_lb(d) == d.lb + d.start
SmallDomain_get_ub(d) == d.ub + d.start

\* no emptiness test: the bits lb..y1-1 are discarded and lb becomes y1
SmallDomain_set_lb(d, x) ==
    IF x < d.start THEN Res(d, Same)
    ELSE IF x >= d.start + BlockBits THEN Res(d, Failed)
    ELSE LET y1 == x - d.start IN
         IF y1 > d.lb
         THEN Res([d EXCEPT !.body = @ \ (d.lb..(y1 - 1)), !.lb = y1],
                  IF d.body \cap (d.lb..(y1 - 1)) # {} THEN Modified ELSE Same)
         ELSE Res(d, Same)

SmallDomain_set_ub(d, x) ==
    IF x < d.start THEN Res(d, Failed)
    ELSE IF x >= d.start + BlockBits THEN Res(d, Same)
    ELSE LET y1 == x - d.start IN
         IF y1 < d.ub
         THEN Res([d EXCEPT !.body = @ \ ((y1 + 1)..d.ub), !.ub = y1],
                  IF d.body \cap ((y1 + 1)..d.ub) # {} THEN Modified ELSE Same)
         ELSE Res(d, Same)

SmallDomain_checkpoint(d) ==
    [d EXCEPT !.checkpoints = Append(@, <<d.body, d.start, d.lb, d.ub>>)]

\* precondition: a checkpoint is open (pop().unwrap() panics otherwise)
SmallDomain_rollback(d) ==
    LET state == d.checkpoints[Len(d.checkpoints)] IN
    [body |-> state[1], start |-> state[2], lb |-> state[3], ub |-> state[4],
     checkpoints |-> SubSeq(d.checkpoints, 1, Len(d.checkpoints) - 1)]

SmallDomain_iter(d) == {d.start + i : i \in d.body}
SmallDomain_size(d) == CountOnes(d.body)

-----------------------------------------------------------------------------
(* BitsetDomain (bitset.rs).  data and modified are indexed by block number *)
(* 0..blocks-1; trail and checkpoints are sequences (Vec), so the Rust      *)
(* index k of trail is the TLA+ index k+1.                                  *)

NBlocks(d) == Cardinality(DOMAIN d.data)

BitsetDomain_save(d, block) ==
    IF d.modified[block] >= Len(d.trail) \/ d.trail[d.modified[block] + 1][1] # block
    THEN [d EXCEPT !.modified[block] = Len(d.trail),
                   !.trail = Append(@, <<block, d.data[block]>>)]
    ELSE d

BitsetDomain_new(lb, ub) ==
    LET size == ub - lb + 1
        blocks == (size \div BlockBits) + (IF size % BlockBits > 0 THEN 1 ELSE 0)
    IN  [data |-> [i \in 0..(blocks - 1) |->
                     IF i = blocks - 1 /\ size % BlockBits > 0
                     THEN 0..((size % BlockBits) - 1) ELSE 0..(BlockBits - 1)],
         start |-> lb, first_block |-> 0, last_block |-> blocks - 1, size |-> size,
         checkpoints |-> <<>>, trail |-> <<>>,
         modified |-> [i \in 0..(blocks - 1) |-> 0]]

BitsetDomain_get_lb(d) ==
    d.start + (d.first_block * BlockBits + TrailingZeros(d.data[d.first_block]))

\* defined when the last block is not empty (63 - 64 underflows otherwise)
BitsetDomain_get_ub(d) ==
    d.start + (d.last_block * BlockBits
               + ((BlockBits - 1) - LeadingZeros(d.data[d.last_block])))

\* while self.data[self.first_block] == 0 { self.first_block += 1 }; an index
\* past the last block when every block is empty
AdvanceFirst(d) ==
    LET ne == {i \in d.first_block..(NBlocks(d) - 1) : d.data[i] # {}} IN
    IF ne = {} THEN NBlocks(d) ELSE SetMin(ne)

\* while self.data[self.last_block] == 0 { self.last_block -= 1 }
RetreatLast(d) ==
    LET ne == {i \in 0..d.last_block : d.data[i] # {}} IN
    IF ne = {} THEN -1 ELSE SetMax(ne)

\* the loop of assign over first_block..=last_block
RECURSIVE BitsetDomain_assign_loop(_, _, _)
BitsetDomain_assign_loop(d, i, block) ==
    IF i > d.last_block THEN d
    ELSE LET d1 == IF i = block \/ d.data[i] # {} THEN BitsetDomain_save(d, i) ELSE d
         IN  BitsetDomain_assign_loop([d1 EXCEPT !.data[i] = {}], i + 1, block)

BitsetDomain_assign(d, x) ==
    IF x < d.start \/ x >= d.start + NBlocks(d) * BlockBits THEN Res(d, Failed)
    ELSE LET id == x - d.start
             block == id \div BlockBits
             shift == id - block * BlockBits
         IN  IF shift \notin d.data[block] THEN Res(d, Failed)
             ELSE IF d.size = 1 THEN Res(d, Same)
             ELSE LET d1 == BitsetDomain_assign_loop(d, d.first_block, block) IN
                  Res([d1 EXCEPT !.size = 1, !.data[block] = {shift},
                                 !.first_block = block, !.last_block = block],
                      Modified)

BitsetDomain_is_assigned(d) == d.size = 1

BitsetDomain_possible(d, x) ==
    IF x < d.start \/ x >= d.start + NBlocks(d) * BlockBits THEN FALSE
    ELSE LET id == x - d.start
             block == id \div BlockBits
         IN  (id - block * BlockBits) \in d.data[block]

BitsetDomain_remove(d, x) ==
    IF x < d.start \/ x >= d.start + NBlocks(d) * BlockBits THEN Res(d, Same)
    ELSE LET id == x - d.start
             block == id \div BlockBits
             shift == id - block * BlockBits
         IN  IF shift \notin d.data[block] THEN Res(d, Same)
             ELSE LET d1 == BitsetDomain_save(d, block)
                      d2 == [d1 EXCEPT !.data[block] = Xor(@, {shift}),
                                       !.size = @ - 1]
                  IN  IF d2.size = 0 THEN Res(d2, Failed)
                      ELSE IF AdvanceFirst(d2) >= NBlocks(d2) THEN Res(d2, "Panic")
                      ELSE Res([d2 EXCEPT !.first_block = AdvanceFirst(d2),
                                          !.last_block = RetreatLast(d2)],
                               Modified)

\* the loops of set_lb / set_ub that empty the whole blocks lo..hi
RECURSIVE BitsetDomain_clear_blocks(_, _, _)
BitsetDomain_clear_blocks(d, lo, hi) ==
    IF lo > hi THEN d
    ELSE IF d.data[lo] # {}
         THEN LET d1 == BitsetDomain_save(d, lo) IN
              BitsetDomain_clear_blocks(
                  [d1 EXCEPT !.size = @ - CountOnes(d1.data[lo]), !.data[lo] = {}],
                  lo + 1, hi)
         ELSE BitsetDomain_clear_blocks(d, lo + 1, hi)

BitsetDomain_set_lb(d, x) ==
    IF x <= BitsetDomain_get_lb(d) THEN Res(d, Same)
    ELSE IF x > BitsetDomain_get_ub(d) THEN Res(d, Failed)
    ELSE LET id == x - d.start
             block == id \div BlockBits
             shift == id - block * BlockBits
         IN  IF block >= d.first_block
             THEN LET d1 == BitsetDomain_clear_blocks(d, d.first_block, block - 1)
                      d2 == IF shift > TrailingZeros(d1.data[block])
                            THEN LET s == BitsetDomain_save(d1, block) IN
                                 [s EXCEPT
                                    !.size = @ - CountOnes(s.data[block] \cap 0..(shift - 1)),
                                    !.data[block] = @ \ (0..(shift - 1))]
                            ELSE d1
                  IN  IF d2.size = 0 THEN Res(d2, Failed)
                      ELSE IF AdvanceFirst(d2) >= NBlocks(d2) THEN Res(d2, "Panic")
                      ELSE Res([d2 EXCEPT !.first_block = AdvanceFirst(d2)],
                               IF d.size # d2.size THEN Modified ELSE Same)
             ELSE Res(d, Same)

BitsetDomain_set_ub(d, x) ==
    IF x < BitsetDomain_get_lb(d) THEN Res(d, Failed)
    ELSE IF x >= BitsetDomain_get_ub(d) THEN Res(d, Same)
    ELSE LET id == x - d.start
             block == id \div BlockBits
             shift == id - block * BlockBits
         IN  IF block <= d.last_block
             THEN LET d1 == BitsetDomain_clear_blocks(d, block + 1, d.last_block)
                      d2 == IF LeadingZeros(d1.data[block]) < (BlockBits - 1) - shift
                            THEN LET s == BitsetDomain_save(d1, block) IN
                                 [s EXCEPT
                                    !.size = @ - CountOnes(s.data[block] \ (0..shift)),
                                    !.data[block] = @ \cap (0..shift)]
                            ELSE d1
                  IN  IF d2.size = 0 THEN Res(d2, Failed)
                      ELSE IF RetreatLast(d2) < 0 THEN Res(d2, "Panic")
                      ELSE Res([d2 EXCEPT !.last_block = RetreatLast(d2)],
                               IF d.size # d2.size THEN Modified ELSE Same)
             ELSE Res(d, Same)

BitsetDomain_checkpoint(d) ==
    [d EXCEPT !.checkpoints = Append(@, d.trail), !.trail = <<>>]

\* the trail is replayed front to back: for (i, old) in self.trail.drain(..)
RECURSIVE BitsetDomain_rollback_loop(_, _)
BitsetDomain_rollback_loop(d, k) ==
    IF k > Len(d.trail) THEN d
    ELSE LET i == d.trail[k][1]
             old == d.trail[k][2]
             delta == Xor(old, d.data[i])
         IN  IF delta = {} THEN BitsetDomain_rollback_loop(d, k + 1)
             ELSE BitsetDomain_rollback_loop(
                      [d EXCEPT !.size = @ + CountOnes(delta),
                                !.data[i] = Xor(@, delta),
                                !.first_block = IF i < @ THEN i ELSE @,
                                !.last_block = IF i > @ THEN i ELSE @],
                      k + 1)

\* precondition: a checkpoint is open (pop().unwrap() panics otherwise)
BitsetDomain_rollback(d) ==
    LET d1 == BitsetDomain_rollback_loop(d, 1) IN
    [d1 EXCEPT !.trail = d.checkpoints[Len(d.checkpoints)],
               !.checkpoints = SubSeq(@, 1, Len(@) - 1)]

\* BitsetDomainIterator: the bits of the blocks first_block..=last_block
BitsetDomain_iter(d) ==
    UNION {{d.start + BlockBits * i + b : b \in d.data[i]} :
              i \in d.first_block..d.last_block}

BitsetDomain_size(d) == d.size

-----------------------------------------------------------------------------
(* Domain harness: one SmallDomain and one BitsetDomain driven by arbitrary *)
(* properly nested sequences of assign / remove / set_lb / set_ub /         *)
(* checkpoint / rollback, as Variable forwards them (variable.rs).          *)

\* the SmallDomain is created over SmallStart..SmallStart+SmallSpan
SmallStart == 1
SmallSpan == 2
\* the BitsetDomain is created over 0..BitsetSpan (two blocks)
BitsetSpan == 65

Reps == {"small", "bitset"}

\* arguments tried on the SmallDomain: around the interval, and one beyond the word
SmallVals == ((SmallStart - 1)..(SmallStart + SmallSpan + 1)) \cup {SmallStart + BlockBits}
\* arguments tried on the BitsetDomain: the first value of each block, the last
\* value of the domain and one value beyond it
BitsetVals == {0, BlockBits, BitsetSpan, BitsetSpan + 1}

\* get_ub / set_lb / set_ub of a BitsetDomain are defined only while the first and
\* last block are not empty (they underflow on an emptied domain)
BitsetDefined(d) == d.data[d.first_block] # {} /\ d.data[d.last_block] # {}

\* what a caller can observe of a domain: iter(), get_lb(), get_ub(), size()
Obs(which) ==
    IF which = "small"
    THEN [vals |-> SmallDomain_iter(sd), lb |-> SmallDomain_get_lb(sd),
          ub |-> SmallDomain_get_ub(sd), size |-> SmallDomain_size(sd)]
    ELSE [vals |-> BitsetDomain_iter(bd),
          lb |-> IF BitsetDefined(bd) THEN BitsetDomain_get_lb(bd) ELSE "undefined",
          ub |-> IF BitsetDefined(bd) THEN BitsetDomain_get_ub(bd) ELSE "undefined",
          size |-> BitsetDomain_size(bd)]

Level(which) == IF which = "small" THEN Len(sd.checkpoints) ELSE Len(bd.checkpoints)

DomInit ==
    /\ sd = SmallDomain_new(SmallStart, SmallStart + SmallSpan)
    /\ bd = BitsetDomain_new(0, BitsetSpan)
    /\ snaps = [w \in Reps |-> <<>>]
    /\ \E w \in Reps : dlast = [op |-> "new", which |-> w, state |-> Same,
                                  expect |-> {}]
    /\ CallIdle
    /\ SearchIdle

\* the effect of one mutating call on the harness; a run exercises the one
\* representation chosen at creation (Variable::new picks one per variable)
DomApply(op, which, x, r) ==
    /\ dlast.state # "Panic"
    /\ dlast.which = which
    /\ which = "bitset" => BitsetDefined(bd)
    /\ dlast' = [op |-> op, which |-> which, state |-> r.state, expect |-> {}]
    /\ IF r.state = "Panic" THEN UNCHANGED <<sd, bd>>
       ELSE IF which = "small" THEN sd' = r.dom /\ bd' = bd
       ELSE bd' = r.dom /\ sd' = sd
    /\ UNCHANGED <<snaps, callVars, searchVars>>

DomAssign ==
    \/ \E x \in SmallVals : DomApply("assign", "small", x, SmallDomain_assign(sd, x))
    \/ \E x \in BitsetVals :
          BitsetDefined(bd) /\ DomApply("assign", "bitset", x, BitsetDomain_assign(bd, x))

DomRemove ==
    \/ \E x \in SmallVals : DomApply("remove", "small", x, SmallDomain_remove(sd, x))
    \/ \E x \in BitsetVals :
          BitsetDefined(bd) /\ DomApply("remove", "bitset", x, BitsetDomain_remove(bd, x))

DomSetLb ==
    \/ \E x \in SmallVals : DomApply("set_lb", "small", x, SmallDomain_set_lb(sd, x))
    \/ \E x \in BitsetVals :
          BitsetDefined(bd) /\ DomApply("set_lb", "bitset", x, BitsetDomain_set_lb(bd, x))

DomSetUb ==
    \/ \E x \in SmallVals : DomApply("set_ub", "small", x, SmallDomain_set_ub(sd, x))
    \/ \E x \in BitsetVals :
          BitsetDefined(bd) /\ DomApply("set_ub", "bitset", x, BitsetDomain_set_ub(bd, x))

DomCheckpoint ==
    \E which \in Reps :
        /\ dlast.state # "Panic"
        /\ dlast.which = which
        /\ Level(which) < MaxLevels
        /\ which = "bitset" => BitsetDefined(bd)
        /\ snaps' = [snaps EXCEPT ![which] = Append(@, Obs(which))]
        /\ IF which = "small"
           THEN sd' = SmallDomain_checkpoint(sd) /\ bd' = bd
           ELSE bd' = BitsetDomain_checkpoint(bd) /\ sd' = sd
        /\ dlast' = [op |-> "checkpoint", which |-> which, state |-> Same,
                     expect |-> {}]
        /\ UNCHANGED <<callVars, searchVars>>

DomRollback ==
    \E which \in Reps :
        /\ dlast.state # "Panic"
        /\ dlast.which = which
        /\ Level(which) > 0
        /\ snaps' = [snaps EXCEPT ![which] = SubSeq(@, 1, Len(@) - 1)]
        /\ IF which = "small"
           THEN sd' = SmallDomain_rollback(sd) /\ bd' = bd
           ELSE bd' = BitsetDomain_rollback(bd) /\ sd' = sd
        /\ dlast' = [op |-> "rollback", which |-> which, state |-> Same,
                     expect |-> snaps[which][Len(snaps[which])]]
        /\ UNCHANGED <<callVars, searchVars>>

DomNext ==
    \/ DomAssign
    \/ DomRemove
    \/ DomSetLb
    \/ DomSetUb
    \/ DomCheckpoint
    \/ DomRollback

DomSpec == DomInit /\ [][DomNext]_vars

-----------------------------------------------------------------------------
(* Properties of the domains *)

Mutations == {"assign", "remove", "set_lb", "set_ub"}

\* C6: every rollback restores exactly the observable state (value set, get_lb,
\* get_ub, size) that the domain had at the matching checkpoint, in both
\* representations.
C6_RollbackRestoresCheckpoint ==
    dlast.op = "rollback" => Obs(dlast.which) = dlast.expect

\* the same statement for the single-word representation alone
SmallRollbackRestoresCheckpoint ==
    (dlast.op = "rollback" /\ dlast.which = "small") => Obs("small") = dlast.expect

\* C8: no call of assign, remove, set_lb or set_ub, in either representation,
\* adds a value to the domain, and checkpoint leaves the value set alone: between
\* a checkpoint and the matching rollback the value set only shrinks.
C8_NoMutationAddsValue ==
    [][/\ dlast'.op \in Mutations =>
            Obs(dlast.which)'.vals \subseteq Obs(dlast.which).vals
       /\ dlast'.op = "checkpoint" =>
            Obs(dlast.which)'.vals = Obs(dlast.which).vals]_vars

\* a mutation of the block bitset that removed values of a whole block and more
C8_Witness ==
    /\ dlast.which = "bitset"
    /\ dlast.op = "set_lb"
    /\ dlast.state = Modified
    /\ bd.first_block = 1
    /\ Len(bd.checkpoints) > 0

-----------------------------------------------------------------------------
(* BinPacking: the subset-sum test no_sum (Shaw's NoSum)                    *)

MaxItems == 4      \* longest weight list
MaxWeight == 4     \* largest weight

RECURSIVE SeqSum(_)
SeqSum(s) == IF s = <<>> THEN 0 ELSE Head(s) + SeqSum(Tail(s))

\* s[i] on a slice panics unless 0 <= i < s.len(); a usize that would go
\* below zero panics or wraps to an index that is out of range
InRange(s, i) == i >= 0 /\ i < Len(s)

\* while sc + s[n - k1 - 1] < l
RECURSIVE no_sum_scan(_, _, _, _)
no_sum_scan(s, l, sc, k1) ==
    LET i == Len(s) - k1 - 1 IN
    IF ~InRange(s, i) THEN [panic |-> TRUE, sc |-> sc, k1 |-> k1]
    ELSE IF sc + s[i + 1] < l THEN no_sum_scan(s, l, sc + s[i + 1], k1 + 1)
    ELSE [panic |-> FALSE, sc |-> sc, k1 |-> k1]

\* while sa + sc >= l
RECURSIVE no_sum_shift(_, _, _)
no_sum_shift(s, l, st) ==
    IF st.panic \/ st.sa + st.sc < l THEN st
    ELSE LET k1 == st.k1 - 1
             i == Len(s) - k1 - 1
             j == Len(s) - k1 - st.k - 2
         IN  IF k1 < 0 \/ ~InRange(s, i) \/ ~InRange(s, j)
             THEN [st EXCEPT !.panic = TRUE]
             ELSE no_sum_shift(s, l, [st EXCEPT !.k1 = k1,
                                                !.sb = @ + s[i + 1] - s[j + 1],
                                                !.sc = @ - s[i + 1]])

\* a main loop that stops one step early on the upper limit
no_sum_continue_strict(sa, sb, l, r) == sa < l /\ sb < r

\* while sa < l && sb <= r
no_sum_continue(sa, sb, l, r) == sa < l /\ sb <= r

RECURSIVE no_sum_loop(_, _, _, _)
no_sum_loop(s, l, r, st) ==
    IF st.panic \/ ~no_sum_continue(st.sa, st.sb, l, r) THEN st
    ELSE IF ~InRange(s, st.k) THEN [st EXCEPT !.panic = TRUE]
    ELSE LET st1 == [st EXCEPT !.sa = @ + s[st.k + 1], !.k = @ + 1]
             k1 == st.k1 - 1
             i == Len(s) - k1 - 1
         IN  IF st1.sa >= l THEN no_sum_loop(s, l, r, st1)
             ELSE IF k1 < 0 \/ ~InRange(s, i) THEN [st1 EXCEPT !.panic = TRUE]
             ELSE no_sum_loop(s, l, r,
                      no_sum_shift(s, l, [st1 EXCEPT !.k1 = k1,
                                                     !.sc = @ - s[i + 1],
                                                     !.sb = @ + s[i + 1]]))

\* the returned flag with the out-parameters l1 and r1
no_sum(s, l, r) ==
    IF l <= 0 \/ r >= SeqSum(s)
    THEN [ret |-> FALSE, panic |-> FALSE, l1 |-> 0, r1 |-> 0, k |-> 0]
    ELSE LET c == no_sum_scan(s, l, 0, 0) IN
         IF c.panic \/ ~InRange(s, Len(s) - c.k1 - 1)
         THEN [ret |-> FALSE, panic |-> TRUE, l1 |-> 0, r1 |-> 0, k |-> 0]
         ELSE LET st == no_sum_loop(s, l, r,
                            [sa |-> 0, sb |-> s[Len(s) - c.k1], sc |-> c.sc,
                             k |-> 0, k1 |-> c.k1, panic |-> FALSE])
              IN  [ret |-> ~st.panic /\ st.sa < l, panic |-> st.panic,
                   l1 |-> st.sa + st.sc, r1 |-> st.sb, k |-> st.k]

\* weight lists as propagate() passes them: positive, sorted non-increasing
WeightLists ==
    {s \in UNION {[1..n -> 1..MaxWeight] : n \in 0..MaxItems} :
        \A i \in 1..(Len(s) - 1) : s[i] >= s[i + 1]}

NoSumInit ==
    /\ \E s \in WeightLists : \E l \in 0..(SeqSum(s) + 1) : \E r \in l..(SeqSum(s) + 1) :
           args = [fn |-> "no_sum", s |-> s, l |-> l, r |-> r]
    /\ result = [done |-> FALSE]
    /\ DomIdle
    /\ SearchIdle

NoSumCall ==
    /\ args.fn = "no_sum"
    /\ ~result.done
    /\ result' = [done |-> TRUE, out |-> no_sum(args.s, args.l, args.r)]
    /\ UNCHANGED <<args, domVars, searchVars>>

NoSumSpec == NoSumInit /\ [][NoSumCall]_vars

RECURSIVE SubsetSums(_)
SubsetSums(s) ==
    IF s = <<>> THEN {0}
    ELSE LET t == SubsetSums(Tail(s)) IN t \cup {x + Head(s) : x \in t}

\* C10: for a non-increasing list S of positive weights and l <= r, when
\* no_sum(S, l, r) returns true no subset of S has its sum in [l, r]
C10_NoSumSound ==
    (args.fn = "no_sum" /\ result.done /\ result.out.ret)
        => SubsetSums(args.s) \cap (args.l..args.r) = {}

\* no_sum answers true after the main loop has gone round more than once
C10_Witness ==
    /\ args.fn = "no_sum" /\ result.done /\ result.out.ret
    /\ result.out.k >= 2 /\ args.l < args.r

\* no_sum never indexes outside the list on these inputs
NoSumNoPanic == (args.fn = "no_sum" /\ result.done) => ~result.out.panic

-----------------------------------------------------------------------------
(* AllDifferent: arc consistency from a maximum matching (Dinic) and the    *)
(* strongly connected components of the oriented value graph.  Vertices     *)
(* and edge ids are numbered from 0 as in the code; sequences are 1-based.  *)

NVars == 3         \* most variables of one alldifferent
MaxVal == 2        \* domains are subsets of 0..MaxVal
IntMax == 2147483647

RECURSIVE SortedSeq(_)
SortedSeq(S) == IF S = {} THEN <<>>
                ELSE <<SetMin(S)>> \o SortedSeq(S \ {SetMin(S)})

\* FlowEdge::new twice: an edge and its reverse, at ids e and e + 1
FlowEdgePair(from, to, capacity) ==
    << [from |-> from, to |-> to, capacity |-> capacity],
       [from |-> to, to |-> from, capacity |-> 0] >>

\* the heap loop: values ascending, and for one value the variables in
\* descending index order (BinaryHeap of (-val, i))
RECURSIVE ValueEdges(_, _, _, _)
ValueEdges(doms, vals, k, i) ==
    IF k > Len(vals) THEN <<>>
    ELSE IF i < 0 THEN ValueEdges(doms, vals, k + 1, Len(doms) - 1)
    ELSE (IF vals[k] \in SmallDomain_iter(doms[i + 1])
          THEN FlowEdgePair(i, Len(doms) + k - 1, 1) ELSE <<>>)
         \o ValueEdges(doms, vals, k, i - 1)

RECURSIVE Flatten(_)
Flatten(ss) == IF ss = <<>> THEN <<>> ELSE Head(ss) \o Flatten(Tail(ss))

\* graph[v]: the ids of the edges leaving v, in the order they were pushed;
\* count is None ([some |-> FALSE]) or the capacity of each value, and
\* panic stands for map.get(..).unwrap() on a value the map does not have
ACMatching_new(doms, count) ==
    LET n == Len(doms)
        vals == SortedSeq(UNION {SmallDomain_iter(doms[i]) : i \in 1..n})
        s == n + Len(vals)
        t == s + 1
        edges == ValueEdges(doms, vals, 1, n - 1)
                 \o Flatten([i \in 1..n |-> FlowEdgePair(s, i - 1, 1)])
                 \o Flatten([k \in 1..Len(vals) |->
                        FlowEdgePair(n + k - 1, t,
                            IF ~count.some THEN 1
                            ELSE IF vals[k] \in DOMAIN count.map THEN count.map[vals[k]]
                            ELSE 0)])
        ids == [j \in 1..Len(edges) |-> j - 1]
    IN  [n |-> n, s |-> s, t |-> t, vals |-> vals, edges |-> edges,
         panic |-> count.some /\ \E k \in 1..Len(vals) : vals[k] \notin DOMAIN count.map,
         graph |-> [v \in 0..t |->
                      SelectSeq(ids, LAMBDA id : edges[id + 1].from = v)]]

\* breadth-first levels over edges with residual capacity; st = [level, q, qh]
RECURSIVE ACMatching_bfs(_, _, _, _)
ACMatching_bfs(m, flow, st, j) ==
    IF st.qh > Len(st.q) THEN st.level
    ELSE LET v == st.q[st.qh] IN
         IF j > Len(m.graph[v]) THEN ACMatching_bfs(m, flow, [st EXCEPT !.qh = @ + 1], 1)
         ELSE LET id == m.graph[v][j]
                  e == m.edges[id + 1]
              IN  IF e.capacity = flow[id + 1] \/ st.level[e.to] # -1
                  THEN ACMatching_bfs(m, flow, st, j + 1)
                  ELSE ACMatching_bfs(m, flow,
                           [st EXCEPT !.level[e.to] = st.level[v] + 1,
                                      !.q = Append(@, e.to)], j + 1)

\* one augmenting path in the level graph; st = [flow, ptr, level]
RECURSIVE ACMatching_dfs(_, _, _, _)
ACMatching_dfs(m, st, v, pushed) ==
    IF pushed = 0 THEN [st |-> st, got |-> 0]
    ELSE IF v = m.t THEN [st |-> st, got |-> pushed]
    ELSE IF st.ptr[v] >= Len(m.graph[v]) THEN [st |-> st, got |-> 0]
    ELSE LET id == m.graph[v][st.ptr[v] + 1]
             mate == IF id % 2 = 0 THEN id + 1 ELSE id - 1
             e == m.edges[id + 1]
             room == e.capacity - st.flow[id + 1]
         IN  IF st.level[v] + 1 # st.level[e.to] \/ room = 0
             THEN ACMatching_dfs(m, [st EXCEPT !.ptr[v] = @ + 1], v, pushed)
             ELSE LET r == ACMatching_dfs(m, st, e.to,
                                          IF pushed < room THEN pushed ELSE room)
                  IN  IF r.got > 0
                      THEN [st |-> [r.st EXCEPT !.flow[id + 1] = @ + r.got,
                                                !.flow[mate + 1] = @ - r.got],
                            got |-> r.got]
                      ELSE ACMatching_dfs(m, [r.st EXCEPT !.ptr[v] = @ + 1], v, pushed)

\* the inner loop of matching(): dfs from s until nothing more is pushed
RECURSIVE ACMatching_blocking(_, _, _)
ACMatching_blocking(m, st, total) ==
    LET r == ACMatching_dfs(m, st, m.s, IntMax) IN
    IF r.got > 0 THEN ACMatching_blocking(m, r.st, total + r.got)
    ELSE [flow |-> r.st.flow, total |-> total]

\* the outer loop of matching(): phases until t is unreachable
RECURSIVE ACMatching_phases(_, _, _)
ACMatching_phases(m, flow, total) ==
    LET level == ACMatching_bfs(m, flow,
                     [level |-> [v \in 0..m.t |-> IF v = m.s THEN 0 ELSE -1],
                      q |-> <<m.s>>, qh |-> 1], 1)
    IN  IF level[m.t] = -1 THEN [flow |-> flow, total |-> total]
        ELSE LET b == ACMatching_blocking(m,
                          [flow |-> flow, ptr |-> [v \in 0..m.t |-> 0],
                           level |-> level], total)
             IN  ACMatching_phases(m, b.flow, b.total)

\* matching(): None, or for MatchingGraph the value graph with matched
\* edges oriented variable -> value and the others value -> variable, for
\* FlowGraph the residual graph over all vertices, s and t included
ACMatching_matching(m, ret) ==
    LET f == ACMatching_phases(m, [j \in 1..Len(m.edges) |-> 0], 0)
        nv == m.s
        full(id) == f.flow[id + 1] = m.edges[id + 1].capacity
        inner(id) == m.edges[id + 1].to < nv /\ m.edges[id + 1].capacity > 0
        varsSeq == [j \in 1..m.n |-> j - 1]
        pushes == Flatten([v1 \in 1..(m.t + 1) |->
                      Flatten([j \in 1..Len(m.graph[v1 - 1]) |->
                          LET id == m.graph[v1 - 1][j]
                              u == m.edges[id + 1].to
                          IN  (IF m.edges[id + 1].capacity > f.flow[id + 1]
                               THEN <<[row |-> v1 - 1, x |-> u]>> ELSE <<>>)
                              \o (IF f.flow[id + 1] > 0
                                  THEN <<[row |-> u, x |-> v1 - 1]>> ELSE <<>>)])])
    IN  IF f.total # m.n THEN [some |-> FALSE]
        ELSE IF ret = "FlowGraph"
        THEN [some |-> TRUE,
              g |-> [v \in 0..m.t |->
                       LET hit == SelectSeq(pushes, LAMBDA p : p.row = v)
                       IN  [j \in 1..Len(hit) |-> hit[j].x]]]
        ELSE [some |-> TRUE,
              g |-> [v \in 0..(nv - 1) |->
                       IF v < m.n
                       THEN LET hit == SelectSeq(m.graph[v],
                                          LAMBDA id : inner(id) /\ full(id))
                            IN  [j \in 1..Len(hit) |-> m.edges[hit[j] + 1].to]
                       ELSE SelectSeq(varsSeq, LAMBDA w :
                                \E j \in 1..Len(m.graph[w]) :
                                    /\ inner(m.graph[w][j])
                                    /\ ~full(m.graph[w][j])
                                    /\ m.edges[m.graph[w][j] + 1].to = v)]]

\* SCC::new: the transposed graph and, for each transposed edge, the
\* position of the original edge in its row
SCC_new(gr) ==
    LET n == Cardinality(DOMAIN gr)
        into(j) == Flatten([i1 \in 1..n |->
                      SelectSeq([p \in 1..Len(gr[i1 - 1]) |->
                                    [from |-> i1 - 1, id |-> p - 1, to |-> gr[i1 - 1][p]]],
                                LAMBDA x : x.to = j)])
    IN  [n |-> n, gr |-> gr,
         grt |-> [j \in 0..(n - 1) |->
                    LET x == into(j) IN [p \in 1..Len(x) |-> x[p].from]],
         rev_id_map |-> [j \in 0..(n - 1) |->
                           LET x == into(j) IN [p \in 1..Len(x) |-> x[p].id]]]

\* calc_order(v) from the i-th neighbour on; used[v] is already set
RECURSIVE SCC_calc_order(_, _, _, _)
SCC_calc_order(gr, st, v, i) ==
    IF i > Len(gr[v]) THEN [st EXCEPT !.order = Append(@, v)]
    ELSE IF st.used[gr[v][i]] THEN SCC_calc_order(gr, st, v, i + 1)
    ELSE SCC_calc_order(gr,
             SCC_calc_order(gr, [st EXCEPT !.used[gr[v][i]] = TRUE], gr[v][i], 1),
             v, i + 1)

\* mark_scc(v, scc) from the i-th predecessor on; comp[v] is already set
RECURSIVE SCC_mark_scc(_, _, _, _, _)
SCC_mark_scc(grt, comp, v, scc, i) ==
    IF i > Len(grt[v]) THEN comp
    ELSE IF comp[grt[v][i]] # -1 THEN SCC_mark_scc(grt, comp, v, scc, i + 1)
    ELSE SCC_mark_scc(grt,
             SCC_mark_scc(grt, [comp EXCEPT ![grt[v][i]] = scc], grt[v][i], scc, 1),
             v, scc, i + 1)

\* first loop of find_scc
RECURSIVE SCC_find_order(_, _, _)
SCC_find_order(scc, st, v) ==
    IF v >= scc.n THEN st.order
    ELSE IF st.used[v] THEN SCC_find_order(scc, st, v + 1)
    ELSE SCC_find_order(scc,
             SCC_calc_order(scc.gr, [st EXCEPT !.used[v] = TRUE], v, 1), v + 1)

\* second loop of find_scc, over the reversed order
RECURSIVE SCC_find_comp(_, _, _, _, _)
SCC_find_comp(scc, order, k, comp, curr) ==
    IF k < 1 THEN comp
    ELSE IF comp[order[k]] # -1 THEN SCC_find_comp(scc, order, k - 1, comp, curr)
    ELSE SCC_find_comp(scc, order, k - 1,
             SCC_mark_scc(scc.grt, [comp EXCEPT ![order[k]] = curr], order[k], curr, 1),
             curr + 1)

SCC_find_scc(scc) ==
    LET order == SCC_find_order(scc, [used |-> [v \in 0..(scc.n - 1) |-> FALSE],
                                      order |-> <<>>], 0)
    IN  SCC_find_comp(scc, order, Len(order), [v \in 0..(scc.n - 1) |-> -1], 0)

\* an edge kept although both ends lie in components that merely compare
SCC_edge_ok_loose(comp, v, u) == comp[v] <= comp[u] \/ v < u

\* a flag that starts true for the matching edges only
SCC_edge_ok_matched(comp, v, u) == v < u

\* the initial ok flag of edge (v, u): same component, or a matching edge
SCC_edge_ok(comp, v, u) == comp[v] = comp[u] \/ v < u

\* one of the two sweeps from the free vertices; st = [ok, free, q, qh, panic]
RECURSIVE SCC_sweep(_, _, _, _)
SCC_sweep(scc, iter, st, j) ==
    IF st.panic \/ st.qh > Len(st.q) THEN st
    ELSE LET v == st.q[st.qh]
             adj == IF iter = 0 THEN scc.gr[v] ELSE scc.grt[v]
         IN  IF j > Len(adj) THEN SCC_sweep(scc, iter, [st EXCEPT !.qh = @ + 1], 1)
             ELSE LET u == adj[j]
                      edge == IF iter = 0 THEN j - 1 ELSE scc.rev_id_map[v][j]
                  IN  IF edge >= Len(st.ok[v]) THEN [st EXCEPT !.panic = TRUE]
                      ELSE SCC_sweep(scc, iter,
                               [st EXCEPT !.ok[v][edge + 1] = TRUE,
                                          !.free[u] = TRUE,
                                          !.q = IF st.free[u] THEN @ ELSE Append(@, u)],
                               j + 1)

SCC_get_bad_edges(scc) ==
    LET comp == SCC_find_scc(scc)
        V == 0..(scc.n - 1)
        ok0 == [v \in V |-> [i \in 1..Len(scc.gr[v]) |->
                                SCC_edge_ok(comp, v, scc.gr[v][i])]]
        free == [v \in V |->
                   /\ \A i \in 1..Len(scc.gr[v]) : ~(v < scc.gr[v][i])
                   /\ \A w \in V : \A i \in 1..Len(scc.gr[w]) :
                          ~(scc.gr[w][i] = v /\ w < v)]
        start(ok) == [ok |-> ok, free |-> free, q |-> SortedSeq({v \in V : free[v]}),
                      qh |-> 1, panic |-> FALSE]
        s0 == SCC_sweep(scc, 0, start(ok0), 1)
        s1 == IF s0.panic THEN s0 ELSE SCC_sweep(scc, 1, start(s0.ok), 1)
    IN  [panic |-> s1.panic,
         bad |-> Flatten([v1 \in 1..scc.n |->
                     LET v == v1 - 1
                         row == [i \in 1..Len(scc.gr[v]) |->
                                    [e |-> <<v, scc.gr[v][i]>>, ok |-> s1.ok[v][i]]]
                         drop == SelectSeq(row, LAMBDA x : ~x.ok)
                     IN  [i \in 1..Len(drop) |-> drop[i].e]])]

\* for (val, i) in edges.drain(..): vars[i].remove(m.vals[val - n])
RECURSIVE AllDifferent_remove_bad(_, _, _, _)
AllDifferent_remove_bad(m, bad, k, st) ==
    IF k > Len(bad) \/ st.panic THEN st
    ELSE LET val == bad[k][1]
             i == bad[k][2]
         IN  IF val < m.n \/ val - m.n >= Len(m.vals) \/ i >= m.n
             THEN [st EXCEPT !.panic = TRUE]
             ELSE LET r == SmallDomain_remove(st.doms[i + 1], m.vals[val - m.n + 1])
                  IN  AllDifferent_remove_bad(m, bad, k + 1,
                          [st EXCEPT !.doms[i + 1] = r.dom,
                                     !.failed = @ \/ r.state = Failed])

AllDifferentACPropagator_propagate(doms) ==
    LET m == ACMatching_new(doms, [some |-> FALSE])
        g == ACMatching_matching(m, "MatchingGraph")
        b == SCC_get_bad_edges(SCC_new(g.g))
    IN  IF ~g.some THEN [doms |-> doms, failed |-> TRUE, panic |-> FALSE]
        ELSE IF b.panic THEN [doms |-> doms, failed |-> FALSE, panic |-> TRUE]
        ELSE AllDifferent_remove_bad(m, b.bad, 1,
                 [doms |-> doms, failed |-> FALSE, panic |-> FALSE])

\* the SmallDomain left after removing from lb..ub what is not in S
RECURSIVE SmallDomain_of(_, _)
SmallDomain_of(d, S) ==
    IF SmallDomain_iter(d) \subseteq S THEN d
    ELSE SmallDomain_of(SmallDomain_remove(d, SetMin(SmallDomain_iter(d) \ S)).dom, S)

AllDiffInit ==
    /\ \E n \in 1..NVars : \E D \in [1..n -> (SUBSET (0..MaxVal)) \ {{}}] :
           args = [fn |-> "alldifferent",
                   doms |-> [i \in 1..n |-> SmallDomain_of(SmallDomain_new(0, MaxVal), D[i])]]
    /\ result = [done |-> FALSE]
    /\ DomIdle
    /\ SearchIdle

AllDiffPropagate ==
    /\ args.fn = "alldifferent"
    /\ ~result.done
    /\ result' = [done |-> TRUE, out |-> AllDifferentACPropagator_propagate(args.doms)]
    /\ UNCHANGED <<args, domVars, searchVars>>

AllDiffSpec == AllDiffInit /\ [][AllDiffPropagate]_vars

\* the values left in variable i by the call
Left(i) == SmallDomain_iter(result.out.doms[i])

\* C9: after AllDifferentACPropagator.propagate returns without failure,
\* every remaining value a of every variable v extends to an assignment of
\* all the variables, from their remaining domains, that is all-distinct
C9_EveryValueSupported ==
    (args.fn = "alldifferent" /\ result.done /\ ~result.out.failed /\ ~result.out.panic)
        => \A i \in 1..Len(args.doms) : \A a \in Left(i) :
               \E f \in [1..Len(args.doms) -> 0..MaxVal] :
                   /\ f[i] = a
                   /\ \A j \in 1..Len(args.doms) : f[j] \in Left(j)
                   /\ \A j, k \in 1..Len(args.doms) : j # k => f[j] # f[k]

\* x in {0,1,2}, y in {0}, z in {2} is pruned to x in {1}
C9_Witness ==
    /\ args.fn = "alldifferent" /\ result.done /\ ~result.out.failed
    /\ Len(args.doms) = 3
    /\ SmallDomain_iter(args.doms[1]) = {0, 1, 2}
    /\ SmallDomain_iter(args.doms[2]) = {0}
    /\ SmallDomain_iter(args.doms[3]) = {2}
    /\ Left(1) = {1} /\ Left(2) = {0} /\ Left(3) = {2}

\* propagate neither indexes out of range nor empties a domain by removing
AllDiffNoPanic ==
    (args.fn = "alldifferent" /\ result.done)
        => /\ ~result.out.panic
           /\ result.out.failed => result.out.doms = args.doms

-----------------------------------------------------------------------------
(* Variable, the propagators and the Search engine.  S is the record held   *)
(* by `search`.  Variables are numbered from 1 in model order, propagator   *)
(* ids from 0; S.pobj[id + 1] is the propagator object with that id.        *)

Events == {"Modified", "LowerBound", "UpperBound", "Assigned", "Removed"}

\* HashMap::drain hands out the listeners of an event in an arbitrary order
Orders == {"asc", "desc"}

Ordered(ids, ord) ==
    LET s == SortedSeq(ids) IN
    IF ord = "asc" THEN s ELSE [i \in 1..Len(s) |-> s[Len(s) + 1 - i]]

\* a notification that pushes every listener, queued already or not
Variable_notify_listeners_always(S, v, event, ctx) ==
    LET ls == S.vars[v].listeners[event]
        others == ls \ {ctx.running}
    IN  [S EXCEPT !.vars[v].listeners[event] = {},
                  !.resched_current = @ \/ ctx.running \in ls,
                  !.pobj = [i \in 1..Len(S.pobj) |->
                               IF (i - 1) \in others
                               THEN [S.pobj[i] EXCEPT !.has_new_events = TRUE,
                                                      !.queued = TRUE]
                               ELSE S.pobj[i]],
                  !.propagation_queue = @ \o Ordered(others, ctx.ord)]

\* ctx.running is the id of the propagator inside propagate(), or -1:
\* try_borrow_mut fails for that listener only
Variable_notify_listeners(S, v, event, ctx) ==
    LET ls == S.vars[v].listeners[event]
        others == ls \ {ctx.running}
        fresh == {id \in others : ~S.pobj[id + 1].queued}
    IN  [S EXCEPT !.vars[v].listeners[event] = {},
                  !.resched_current = @ \/ ctx.running \in ls,
                  !.pobj = [i \in 1..Len(S.pobj) |->
                               IF (i - 1) \in others
                               THEN [S.pobj[i] EXCEPT !.has_new_events = TRUE,
                                                      !.queued = TRUE]
                               ELSE S.pobj[i]],
                  !.propagation_queue = @ \o Ordered(fresh, ctx.ord)]

\* the domain after a mutation; a Failed mutation has called fail()
Variable_store(S, v, r) ==
    [S EXCEPT !.vars[v].domain = r.dom,
              !.status = IF r.state = Failed THEN -1 ELSE @]

Variable_assign(S, v, x, ctx) ==
    LET r == SmallDomain_assign(S.vars[v].domain, x)
        S1 == Variable_store(S, v, r)
    IN  IF r.state # Modified THEN S1
        ELSE Variable_notify_listeners(
                 Variable_notify_listeners(S1, v, "Assigned", ctx), v, "Modified", ctx)

Variable_remove(S, v, x, ctx) ==
    LET d == S.vars[v].domain
        S1 == IF SmallDomain_get_lb(d) = x
              THEN Variable_notify_listeners(S, v, "LowerBound", ctx) ELSE S
        S2 == IF SmallDomain_get_ub(d) = x
              THEN Variable_notify_listeners(S1, v, "UpperBound", ctx) ELSE S1
        r == SmallDomain_remove(d, x)
        S3 == Variable_store(S2, v, r)
    IN  IF r.state # Modified THEN S3
        ELSE Variable_notify_listeners(S3, v, "Modified", ctx)

Variable_set_lb(S, v, x, ctx) ==
    LET r == SmallDomain_set_lb(S.vars[v].domain, x)
        S1 == Variable_store(S, v, r)
    IN  IF r.state # Modified THEN S1
        ELSE Variable_notify_listeners(
                 Variable_notify_listeners(S1, v, "LowerBound", ctx), v, "Modified", ctx)

Variable_set_ub(S, v, x, ctx) ==
    LET r == SmallDomain_set_ub(S.vars[v].domain, x)
        S1 == Variable_store(S, v, r)
    IN  IF r.state # Modified THEN S1
        ELSE Variable_notify_listeners(
                 Variable_notify_listeners(S1, v, "UpperBound", ctx), v, "Modified", ctx)

\* value() panics unless lb = ub
Variable_has_value(d) == SmallDomain_get_lb(d) = SmallDomain_get_ub(d)
Variable_value(d) == SmallDomain_get_lb(d)

Variable_add_listener(map, id) == map \cup {id}
Variable_remove_listener(map, id) == map \ {id}

\* satisfied(): "true", "false", or "panic" when value() is read from a
\* variable that is_assigned() by its bit count but whose bounds differ
EqConstraint_satisfied(S, con) ==
    LET x == S.vars[con.x].domain
        y == S.vars[con.y].domain
    IN  IF ~SmallDomain_is_assigned(x) \/ ~SmallDomain_is_assigned(y) THEN "false"
        ELSE IF ~Variable_has_value(x) \/ ~Variable_has_value(y) THEN "panic"
        ELSE IF Variable_value(x) = Variable_value(y) THEN "true" ELSE "false"

EqConstraint_failed(S, con) ==
    LET x == S.vars[con.x].domain
        y == S.vars[con.y].domain
    IN  \/ SmallDomain_get_ub(x) < SmallDomain_get_lb(y)
        \/ SmallDomain_get_ub(y) < SmallDomain_get_lb(x)

ImpliedConstraint_satisfied(S, con) ==
    LET b == S.vars[con.b].domain IN
    IF ~SmallDomain_is_assigned(b) THEN "false"
    ELSE IF ~Variable_has_value(b) THEN "panic"
    ELSE IF Variable_value(b) = 0 THEN "true"
    ELSE EqConstraint_satisfied(S, con.c)

\* LinearEqualityConstraint::satisfied: sum of x[i] * a[i] == b
LinearEqualityConstraint_satisfied(S, con) ==
    LET d(i) == S.vars[con.x[i]].domain
        RECURSIVE sum(_)
        sum(i) == IF i = 0 THEN 0 ELSE sum(i - 1) + Variable_value(d(i)) * con.a[i]
        open == {i \in 1..Len(con.x) : ~SmallDomain_is_assigned(d(i))}
        torn == {i \in 1..Len(con.x) : ~Variable_has_value(d(i))}
    IN  IF open # {} /\ (torn = {} \/ SetMin(open) <= SetMin(torn)) THEN "false"
        ELSE IF torn # {} THEN "panic"
        ELSE IF sum(Len(con.x)) = con.b THEN "true" ELSE "false"

Constraint_satisfied(S, con) ==
    IF con.kind = "Eq" THEN EqConstraint_satisfied(S, con)
    ELSE IF con.kind = "Lin" THEN LinearEqualityConstraint_satisfied(S, con)
    ELSE ImpliedConstraint_satisfied(S, con)

\* the (variable, event) pairs listen() subscribes to
EqBCPropagator_events(con) == {con.x, con.y} \X {"LowerBound", "UpperBound"}
ImpliedPropagator_events(con) ==
    {<<con.b, "Modified">>} \cup EqBCPropagator_events(con.c)

Propagator_events(con) ==
    IF con.kind = "Eq" THEN EqBCPropagator_events(con)
    ELSE IF con.kind = "Lin"
    THEN {con.x[i] : i \in {j \in 1..Len(con.x) : con.a[j] # 0}}
             \X {"LowerBound", "UpperBound"}
    ELSE ImpliedPropagator_events(con)

Propagator_is_idempotent(con) == con.kind = "Eq"

Propagator_listen(S, id) ==
    [S EXCEPT !.vars = [v \in 1..Len(S.vars) |->
        [S.vars[v] EXCEPT !.listeners = [e \in Events |->
            IF <<v, e>> \in Propagator_events(S.pobj[id + 1].con)
            THEN Variable_add_listener(S.vars[v].listeners[e], id)
            ELSE S.vars[v].listeners[e]]]]]

Propagator_unlisten(S, id) ==
    [S EXCEPT !.vars = [v \in 1..Len(S.vars) |->
        [S.vars[v] EXCEPT !.listeners = [e \in Events |->
            IF <<v, e>> \in Propagator_events(S.pobj[id + 1].con)
            THEN Variable_remove_listener(S.vars[v].listeners[e], id)
            ELSE S.vars[v].listeners[e]]]]]

\* create_propagators at the current id counter, add_propagator, listen;
\* the new propagator is not put on the propagation queue
Constraint_add_propagators(S, con) ==
    LET id == S.propagator_id_ctr IN
    Propagator_listen(
        [S EXCEPT !.propagator_id_ctr = @ + 1,
                  !.propagators = Append(@, id),
                  !.pobj = Append(@, [con |-> con, has_new_events |-> FALSE,
                                      queued |-> FALSE])],
        id)

EqBCPropagator_propagate(S, con, ctx) ==
    LET x == S.vars[con.x].domain
        y == S.vars[con.y].domain
        l == IF SmallDomain_get_lb(x) > SmallDomain_get_lb(y)
             THEN SmallDomain_get_lb(x) ELSE SmallDomain_get_lb(y)
        u == IF SmallDomain_get_ub(x) < SmallDomain_get_ub(y)
             THEN SmallDomain_get_ub(x) ELSE SmallDomain_get_ub(y)
    IN  [S |-> Variable_set_ub(Variable_set_lb(
                   Variable_set_ub(Variable_set_lb(S, con.x, l, ctx), con.x, u, ctx),
                   con.y, l, ctx), con.y, u, ctx),
         state |-> "Normal", panic |-> FALSE]

ImpliedPropagator_propagate(S, con, ctx) ==
    LET b == S.vars[con.b].domain IN
    IF SmallDomain_is_assigned(b)
    THEN IF ~Variable_has_value(b) THEN [S |-> S, state |-> "Terminated", panic |-> TRUE]
         ELSE [S |-> IF Variable_value(b) = 1 THEN Constraint_add_propagators(S, con.c)
                     ELSE S,
               state |-> "Terminated", panic |-> FALSE]
    ELSE [S |-> IF EqConstraint_failed(S, con.c) THEN Variable_assign(S, con.b, 0, ctx)
                ELSE S,
          state |-> "Normal", panic |-> FALSE]

\* bounds propagation of sum of x[i] * a[i] == b, one pass over the
\* variables with the sums taken before the pass; always Normal
LinearEqualityPropagator_propagate(S, con, ctx) ==
    LET lb(T, i) == SmallDomain_get_lb(T.vars[con.x[i]].domain)
        ub(T, i) == SmallDomain_get_ub(T.vars[con.x[i]].domain)
        floor_div(p, q) == IF p > 0 THEN p \div q ELSE 0 - ((0 - p + q - 1) \div q)
        ceil_div(p, q) == IF p > 0 THEN (p + q - 1) \div q ELSE 0 - ((0 - p) \div q)
        RECURSIVE lower(_)
        lower(i) == IF i = 0 THEN 0
                    ELSE lower(i - 1) + con.a[i] * (IF con.a[i] > 0 THEN lb(S, i)
                                                    ELSE ub(S, i))
        RECURSIVE upper(_)
        upper(i) == IF i = 0 THEN 0
                    ELSE upper(i - 1) + con.a[i] * (IF con.a[i] > 0 THEN ub(S, i)
                                                    ELSE lb(S, i))
        lower_sum == lower(Len(con.x))
        upper_sum == upper(Len(con.x))
        RECURSIVE pass(_, _)
        pass(T, i) ==
            IF i > Len(con.x) THEN T
            ELSE LET a == con.a[i]
                     v == con.x[i]
                 IN  IF a = 0 THEN pass(T, i + 1)
                     ELSE IF a > 0
                     THEN LET T1 == Variable_set_ub(T, v,
                                        floor_div(con.b - lower_sum + lb(T, i) * a, a), ctx)
                          IN  pass(Variable_set_lb(T1, v,
                                       ceil_div(con.b - upper_sum + ub(T1, i) * a, a), ctx),
                                   i + 1)
                     ELSE LET T1 == Variable_set_lb(T, v,
                                        ceil_div(0 - con.b + lower_sum - ub(T, i) * a, 0 - a),
                                        ctx)
                          IN  pass(Variable_set_ub(T1, v,
                                       floor_div(0 - con.b + upper_sum - lb(T1, i) * a, 0 - a),
                                       ctx),
                                   i + 1)
    IN  [S |-> pass(S, 1), state |-> "Normal", panic |-> FALSE]

Propagator_propagate(S, id, ord) ==
    LET con == S.pobj[id + 1].con
        ctx == [running |-> id, ord |-> ord]
    IN  IF con.kind = "Eq" THEN EqBCPropagator_propagate(S, con, ctx)
        ELSE IF con.kind = "Lin" THEN LinearEqualityPropagator_propagate(S, con, ctx)
        ELSE ImpliedPropagator_propagate(S, con, ctx)

\* SearchNode::default()
DefaultNode ==
    [var |-> 0, branch |-> 0, n_branches |-> 0, n_propagators |-> 0,
     terminated |-> <<>>]

RECURSIVE Search_add_all(_, _, _)
Search_add_all(S, cons, k) ==
    IF k > Len(cons) THEN S
    ELSE Search_add_all(Constraint_add_propagators(S, cons[k]), cons, k + 1)

\* current_min starts at i64::MAX, written [max |-> TRUE]
Search_new(m) ==
    Search_add_all(
        [pc |-> "idle", ret |-> [some |-> FALSE, val |-> 0, line |-> 0],
         vars |-> [v \in 1..Len(m.doms) |->
                     [domain |-> SmallDomain_new(m.doms[v][1], m.doms[v][2]),
                      listeners |-> [e \in Events |-> {}]]],
         pobj |-> <<>>, propagators |-> <<>>, propagator_id_ctr |-> 0,
         status |-> 0, propagation_queue |-> <<>>, resched_current |-> FALSE,
         stack |-> <<DefaultNode>>, node |-> DefaultNode,
         current_min |-> [max |-> TRUE, val |-> 0], best_solution |-> <<>>,
         total_solutions_reported |-> 0],
        m.cons, 1)

Search_check_solution(S, m) ==
    LET res == [k \in 1..Len(m.cons) |-> Constraint_satisfied(S, m.cons[k])]
        bad == {k \in 1..Len(m.cons) : res[k] # "true"}
    IN  IF bad = {} THEN "true" ELSE res[SetMin(bad)]

\* listen (on = TRUE) or unlisten every propagator of ids, in order
RECURSIVE Search_rearm(_, _, _)
Search_rearm(S, ids, on) ==
    IF ids = <<>> THEN S
    ELSE Search_rearm(IF on THEN Propagator_listen(S, Head(ids))
                      ELSE Propagator_unlisten(S, Head(ids)),
                      Tail(ids), on)

\* a restore that leaves the propagators added below the frame installed
Search_restore_propagators_keep(S, node) == Search_rearm(S, node.terminated, TRUE)

\* a restore that leaves the terminated propagators of the frame unsubscribed
Search_restore_propagators_drop(S, node) ==
    LET added == SubSeq(S.propagators, node.n_propagators + 1, Len(S.propagators))
    IN  [Search_rearm(S, added, FALSE)
            EXCEPT !.propagators = SubSeq(S.propagators, 1, node.n_propagators)]

Search_restore_propagators(S, node) ==
    LET S1 == Search_rearm(S, node.terminated, TRUE)
        added == SubSeq(S.propagators, node.n_propagators + 1, Len(S.propagators))
    IN  [Search_rearm(S1, added, FALSE)
            EXCEPT !.propagators = SubSeq(S.propagators, 1, node.n_propagators)]

\* one round of the while loop of propagate(); pc "propfail" is return false
Search_propagate(S, ord) ==
    LET p == Head(S.propagation_queue)
        S1 == [S EXCEPT !.resched_current = FALSE,
                        !.propagation_queue = Tail(@),
                        !.pobj[p + 1].queued = FALSE,
                        !.pobj[p + 1].has_new_events = FALSE]
        r == Propagator_propagate(S1, p, ord)
        abort(T) ==
            [Search_rearm(T, T.propagation_queue, TRUE)
                EXCEPT !.pobj = [i \in 1..Len(T.pobj) |->
                                   IF \E j \in 1..Len(T.propagation_queue) :
                                          T.propagation_queue[j] = i - 1
                                   THEN [T.pobj[i] EXCEPT !.queued = FALSE]
                                   ELSE T.pobj[i]],
                       !.propagation_queue = <<>>,
                       !.pc = "propfail"]
        again(T) ==
            IF T.resched_current /\ ~Propagator_is_idempotent(T.pobj[p + 1].con)
            THEN [T EXCEPT !.propagation_queue = Append(@, p),
                           !.pobj[p + 1].queued = TRUE]
            ELSE T
    IN  IF r.panic THEN [r.S EXCEPT !.pc = "panic"]
        ELSE IF r.state = "Normal"
        THEN IF r.S.status = -1 THEN abort(Propagator_listen(r.S, p))
             ELSE again(Propagator_listen(r.S, p))
        ELSE IF r.S.status = -1 THEN abort(Propagator_listen(r.S, p))
             ELSE [Propagator_unlisten(r.S, p)
                      EXCEPT !.node.terminated = Append(@, p)]

\* for v in self.variables: rollback / checkpoint
Search_can_rollback_all(S) == \A v \in 1..Len(S.vars) : S.vars[v].domain.checkpoints # <<>>
Search_rollback_all(S) ==
    [S EXCEPT !.vars = [v \in 1..Len(S.vars) |->
        [S.vars[v] EXCEPT !.domain = SmallDomain_rollback(S.vars[v].domain)]]]
Search_checkpoint_all(S) ==
    [S EXCEPT !.vars = [v \in 1..Len(S.vars) |->
        [S.vars[v] EXCEPT !.domain = SmallDomain_checkpoint(S.vars[v].domain)]]]

Pop(stack) == SubSeq(stack, 1, Len(stack) - 1)

\* rollback of every variable, restore_propagators(&node), stack.pop()
Search_backtrack(S) ==
    IF ~Search_can_rollback_all(S) THEN [S EXCEPT !.pc = "panic"]
    ELSE [Search_restore_propagators(Search_rollback_all(S), S.node)
             EXCEPT !.stack = Pop(@), !.pc = "loop"]

MinValueBrancher_branch(S, v, branch, ctx) ==
    LET x == SmallDomain_get_lb(S.vars[v].domain) IN
    IF branch = 0 THEN Variable_assign(S, v, x, ctx) ELSE Variable_remove(S, v, x, ctx)

MaxValueBrancher_branch(S, v, branch, ctx) ==
    LET x == SmallDomain_get_ub(S.vars[v].domain) IN
    IF branch = 0 THEN Variable_assign(S, v, x, ctx) ELSE Variable_remove(S, v, x, ctx)

LexVariableSelector_select(S, vs) == vs[1]

FirstFailVariableSelector_select(S, vs) ==
    LET size(i) == SmallDomain_size(S.vars[vs[i]].domain)
        pos == CHOOSE i \in 1..Len(vs) :
                   /\ \A j \in 1..Len(vs) : size(i) <= size(j)
                   /\ \A j \in 1..(i - 1) : size(j) > size(i)
    IN  vs[pos]

SingleVariableObjective_bound(S, obj) ==
    IF obj.coeff > 0 THEN SmallDomain_get_lb(S.vars[obj.var].domain) * obj.coeff
    ELSE SmallDomain_get_ub(S.vars[obj.var].domain) * obj.coeff

\* the head of next(): after a reported solution, None at once unless
\* all_solutions, else undo the checkpoint of the node that held the solution
Search_next_enter(S, m) ==
    IF S.total_solutions_reported = 0 THEN [S EXCEPT !.pc = "loop"]
    ELSE IF ~m.all_solutions
    THEN [S EXCEPT !.pc = "idle", !.ret = [some |-> FALSE, val |-> 0, line |-> 192]]
    ELSE IF ~Search_can_rollback_all(S) THEN [S EXCEPT !.pc = "panic"]
    ELSE [Search_rollback_all(S) EXCEPT !.pc = "loop"]

\* the most frames a search needs that shrinks a domain at every branch
Slack == 2
StackLimit(m) ==
    LET RECURSIVE Total(_)
        Total(k) == IF k = 0 THEN 0
                    ELSE Total(k - 1) + (m.doms[k][2] - m.doms[k][1] + 1)
    IN  Total(Len(m.doms)) + Slack

\* the loop body for a node that has a variable; pc "overflow" stands for
\* a stack that has outgrown StackLimit frames
Search_branch(S, m, ord) ==
    LET node == S.stack[Len(S.stack)]
        v == node.var
        d == S.vars[v].domain
        S1 == IF node.branch > 0
              THEN [S EXCEPT !.vars[v].domain = SmallDomain_rollback(d)] ELSE S
        S2 == [S1 EXCEPT !.vars[v].domain = SmallDomain_checkpoint(@)]
        ctx == [running |-> -1, ord |-> ord]
        S3 == IF m.brancher = "MinValue"
              THEN MinValueBrancher_branch(S2, v, node.branch, ctx)
              ELSE MaxValueBrancher_branch(S2, v, node.branch, ctx)
    IN  IF node.branch > 0 /\ d.checkpoints = <<>> THEN [S EXCEPT !.pc = "panic"]
        ELSE IF node.branch = node.n_branches
        THEN IF ~Search_can_rollback_all(S1) THEN [S1 EXCEPT !.pc = "panic"]
             ELSE [Search_rollback_all(Search_restore_propagators(S1, node))
                      EXCEPT !.stack = Pop(@)]
        ELSE IF Len(S.stack) >= StackLimit(m) THEN [S3 EXCEPT !.pc = "overflow"]
        ELSE [S3 EXCEPT !.stack = Append(
                            [S3.stack EXCEPT ![Len(S3.stack)].branch = node.branch + 1],
                            DefaultNode)]

\* a fresh node up to the call of propagate()
Search_enter_node(S) ==
    [Search_checkpoint_all(S)
        EXCEPT !.node = [S.stack[Len(S.stack)]
                            EXCEPT !.n_propagators = Len(S.propagators)],
               !.pc = "prop"]

\* a failed frame popped with the failed flag left as it is
Search_fail_node_dirty(S) == Search_backtrack(S)

\* propagate() returned false
Search_fail_node(S) ==
    LET T == Search_backtrack(S) IN
    IF T.pc = "panic" THEN T ELSE [T EXCEPT !.status = 0]

Search_unassigned(S, m) ==
    SelectSeq(IF m.branchable = <<>> THEN [v \in 1..Len(S.vars) |-> v]
              ELSE m.branchable,
              LAMBDA v : ~SmallDomain_is_assigned(S.vars[v].domain))

\* restore_propagators, pop, count the solution, return Some(x) at line
Search_report(S, x, line) ==
    [Search_restore_propagators(S, S.node)
        EXCEPT !.stack = Pop(@),
               !.total_solutions_reported = @ + 1,
               !.pc = "idle", !.ret = [some |-> TRUE, val |-> x, line |-> line]]

\* a fresh node after propagate() returned true
Search_after_propagate(S, m) ==
    LET vs == Search_unassigned(S, m)
        chk == Search_check_solution(S, m)
        obj == m.objective
        od == S.vars[obj.var].domain
        val == Variable_value(od) * obj.coeff
        S1 == [S EXCEPT !.current_min = [max |-> FALSE, val |-> val],
                        !.best_solution = [v \in 1..Len(S.vars) |->
                                              Variable_value(S.vars[v].domain)]]
        sel == IF m.selector = "Lex" THEN LexVariableSelector_select(S, vs)
               ELSE FirstFailVariableSelector_select(S, vs)
    IN  IF vs = <<>>
        THEN IF chk = "panic" THEN [S EXCEPT !.pc = "panic"]
             ELSE IF chk = "false" THEN Search_backtrack(S)
             ELSE IF ~obj.some THEN Search_report(S, 0, 313)
             ELSE IF ~Variable_has_value(od) THEN [S EXCEPT !.pc = "panic"]
             ELSE IF ~(S.current_min.max \/ val < S.current_min.val)
             THEN Search_backtrack(S)
             ELSE IF \E v \in 1..Len(S.vars) : ~Variable_has_value(S.vars[v].domain)
             THEN [S EXCEPT !.pc = "panic"]
             ELSE IF m.all_solutions THEN Search_report(S1, val, 300)
             ELSE Search_backtrack(S1)
        ELSE IF /\ obj.some /\ ~S.current_min.max
                /\ SingleVariableObjective_bound(S, obj) >= S.current_min.val
        THEN Search_backtrack(S)
        ELSE [S EXCEPT !.stack = Append(Pop(@),
                           [S.node EXCEPT !.var = sel, !.branch = 0, !.n_branches = 2]),
                       !.pc = "loop"]

RECURSIVE Search_assign_best(_, _, _)
Search_assign_best(S, i, ord) ==
    IF i > Len(S.vars) THEN S
    ELSE Search_assign_best(
             Variable_assign(S, i, S.best_solution[i], [running |-> -1, ord |-> ord]),
             i + 1, ord)

\* the stack is empty
Search_exhausted(S, m, ord) ==
    IF ~m.all_solutions /\ S.best_solution # <<>>
    THEN [Search_assign_best(S, 1, ord)
             EXCEPT !.total_solutions_reported = 1,
                    !.pc = "idle",
                    !.ret = [some |-> TRUE, val |-> S.current_min.val, line |-> 357]]
    ELSE [S EXCEPT !.pc = "idle", !.ret = [some |-> FALSE, val |-> 0, line |-> 359]]

-----------------------------------------------------------------------------
(* The models and configurations searched, and the steps of next()          *)

MaxUb == 2         \* largest upper bound of a variable
MaxCalls == 6      \* calls of next() on one Search

Intervals == {<<lo, hi>> \in (0..1) \X (1..MaxUb) : lo <= hi}

Eq(x, y) == [kind |-> "Eq", x |-> x, y |-> y]
Implied(b, c) == [kind |-> "Implied", b |-> b, c |-> c]

\* two variables, free or equal, or equal when a third 0/1 variable is 1,
\* or tied by a linear equation a1 * x + a2 * y = b, or equal and tied, or
\* tied by the two equations 2 * y - x = 1 and 2 * y - x = 2
Problems ==
    {[doms |-> <<dx, dy>>, cons |-> cs] :
        dx \in Intervals, dy \in Intervals, cs \in {<<>>, <<Eq(1, 2)>>}}
    \cup {[doms |-> <<dx, dy, <<0, 1>> >>, cons |-> <<Implied(3, Eq(1, 2))>>] :
             dx \in Intervals, dy \in Intervals}
    \cup {[doms |-> <<dx, dy>>,
           cons |-> <<[kind |-> "Lin", x |-> <<1, 2>>, a |-> a, b |-> b]>>] :
             dx \in Intervals, dy \in Intervals,
             a \in {<<1, 1>>, <<2, 0 - 1>>}, b \in {1, 3}}
    \cup {[doms |-> <<dx, dy>>,
           cons |-> <<Eq(1, 2), [kind |-> "Lin", x |-> <<1, 2>>, a |-> <<1, 1>>, b |-> b]>>] :
             dx \in Intervals, dy \in Intervals, b \in {2, 3}}
    \cup {[doms |-> <<dx, dy>>,
           cons |-> <<[kind |-> "Lin", x |-> <<1, 2>>, a |-> <<0 - 1, 2>>, b |-> 1],
                      [kind |-> "Lin", x |-> <<1, 2>>, a |-> <<0 - 1, 2>>, b |-> 2]>>] :
             dx \in Intervals, dy \in Intervals}

Objectives ==
    {[some |-> FALSE, var |-> 1, coeff |-> 1]}
    \cup {[some |-> TRUE, var |-> 1, coeff |-> c] : c \in {1, -1}}

Models ==
    {[doms |-> pr.doms, cons |-> pr.cons, objective |-> o, brancher |-> br,
      selector |-> sel, branchable |-> bv, all_solutions |-> al] :
        pr \in Problems, o \in Objectives, br \in {"MinValue", "MaxValue"},
        sel \in {"Lex", "FirstFail"}, bv \in {<<>>, <<1>>}, al \in BOOLEAN}

\* what the caller sees when next() returns: the value and the domains
Returned(h, S) ==
    IF S.pc # "idle" THEN h
    ELSE Append(h, [some |-> S.ret.some, val |-> S.ret.val, line |-> S.ret.line,
                    doms |-> [v \in 1..Len(S.vars) |-> SmallDomain_iter(S.vars[v].domain)]])

\* the propagator list each frame of the stack saw when it was entered
\* (<<>> for a frame pushed and not yet entered)
Entered(e, S0, S) ==
    IF S0.pc = "loop" /\ S.pc = "prop" THEN [e EXCEPT ![Len(e)] = S0.propagators]
    ELSE IF Len(S.stack) > Len(S0.stack) THEN Append(e, <<>>)
    ELSE IF Len(S.stack) < Len(S0.stack) THEN Pop(e)
    ELSE e

Step(S) ==
    /\ search' = S
    /\ hist' = Returned(hist, S)
    /\ entered' = Entered(entered, search, S)
    /\ UNCHANGED <<model, domVars, callVars>>

SearchInit ==
    /\ model \in Models
    /\ search = Search_new(model)
    /\ hist = <<>>
    /\ entered = << <<>> >>
    /\ DomIdle
    /\ CallIdle

NextCall ==
    /\ search.pc = "idle"
    /\ Len(hist) < MaxCalls
    /\ Step(Search_next_enter(search, model))

Exhausted ==
    /\ search.pc = "loop"
    /\ search.stack = <<>>
    /\ \E ord \in Orders : Step(Search_exhausted(search, model, ord))

Branch ==
    /\ search.pc = "loop"
    /\ search.stack # <<>>
    /\ search.stack[Len(search.stack)].var # 0
    /\ \E ord \in Orders : Step(Search_branch(search, model, ord))

EnterNode ==
    /\ search.pc = "loop"
    /\ search.stack # <<>>
    /\ search.stack[Len(search.stack)].var = 0
    /\ Step(Search_enter_node(search))

Propagate ==
    /\ search.pc = "prop"
    /\ search.propagation_queue # <<>>
    /\ \E ord \in Orders : Step(Search_propagate(search, ord))

FailNode ==
    /\ search.pc = "propfail"
    /\ Step(Search_fail_node(search))

AfterPropagate ==
    /\ search.pc = "prop"
    /\ search.propagation_queue = <<>>
    /\ Step(Search_after_propagate(search, model))

Next ==
    \/ NextCall
    \/ Exhausted
    \/ Branch
    \/ EnterNode
    \/ Propagate
    \/ FailNode
    \/ AfterPropagate

Spec == SearchInit /\ [][Next]_vars

-----------------------------------------------------------------------------
(* What a model means: its total assignments and the ones that satisfy it   *)

Assignments(m) ==
    {f \in [1..Len(m.doms) -> 0..MaxUb] :
        \A v \in 1..Len(m.doms) : f[v] \in m.doms[v][1]..m.doms[v][2]}

RECURSIVE Holds(_, _)
Holds(con, f) ==
    IF con.kind = "Eq" THEN f[con.x] = f[con.y]
    ELSE IF con.kind = "Lin"
    THEN f[con.x[1]] * con.a[1] + f[con.x[2]] * con.a[2] = con.b
    ELSE f[con.b] = 0 \/ Holds(con.c, f)

Feasible(m) == {f \in Assignments(m) : \A k \in 1..Len(m.cons) : Holds(m.cons[k], f)}

ObjectiveOf(m, f) == f[m.objective.var] * m.objective.coeff

Minimum(m) == SetMin({ObjectiveOf(m, f) : f \in Feasible(m)})

\* a returned record whose domains are the singletons of assignment f
Shows(r, f) == \A v \in DOMAIN r.doms : r.doms[v] = {f[v]}

\* next() did not return: it panicked, or its stack outgrew StackLimit
Stopped == search.pc \in {"panic", "overflow"}

\* the calls answered so far, up to and including the first None
FirstNone == IF \E i \in 1..Len(hist) : ~hist[i].some
             THEN SetMin({i \in 1..Len(hist) : ~hist[i].some}) ELSE 0
Stream == IF FirstNone = 0 THEN hist ELSE SubSeq(hist, 1, FirstNone - 1)

-----------------------------------------------------------------------------
(* The search contract                                                      *)

\* C1: whenever next() has returned Some(_), every variable of the model
\* has a singleton domain and satisfied() is true for every constraint, for
\* every brancher, selector and branchable_vars setting; the state stays so
\* until the next call.
C1_SolutionAssignedAndSatisfied ==
    (search.pc = "idle" /\ hist # <<>> /\ search.ret.some)
        => /\ \A v \in 1..Len(search.vars) :
                  /\ SmallDomain_is_assigned(search.vars[v].domain)
                  /\ Variable_has_value(search.vars[v].domain)
           /\ \A k \in 1..Len(model.cons) :
                  Constraint_satisfied(search, model.cons[k]) = "true"

\* C2: with all_solutions and no objective, the calls return Some once for
\* each satisfying total assignment, none missed and none twice, and then
\* None; every call up to that None returns.
C2_EverySolutionOnce ==
    (model.all_solutions /\ ~model.objective.some)
        => /\ Stopped => FirstNone # 0
           /\ \A i \in 1..Len(Stream) : \E f \in Feasible(model) : Shows(Stream[i], f)
           /\ \A i, j \in 1..Len(Stream) : Stream[i].doms = Stream[j].doms => i = j
           /\ FirstNone # 0
                 => \A f \in Feasible(model) : \E i \in 1..Len(Stream) : Shows(Stream[i], f)

\* C3: with an objective and all_solutions = false, the first call returns
\* Some(v) exactly when the model is feasible, v is the minimum of the
\* objective over the feasible assignments, the variables then show a
\* feasible assignment of objective v, and every later call returns None.
C3_OneOptimum ==
    (model.objective.some /\ ~model.all_solutions)
        => /\ ~Stopped
           /\ hist # <<>> =>
                 /\ hist[1].some <=> Feasible(model) # {}
                 /\ hist[1].some =>
                       /\ hist[1].val = Minimum(model)
                       /\ \E f \in Feasible(model) :
                             Shows(hist[1], f) /\ ObjectiveOf(model, f) = hist[1].val
           /\ \A i \in 2..Len(hist) : ~hist[i].some

\* C4: with an objective and all_solutions, the values returned by
\* successive calls are strictly decreasing, and when None comes the last
\* value returned before it is the minimum of the objective over the
\* feasible assignments (no value when there is no feasible assignment).
C4_StreamDecreasesToMinimum ==
    (model.objective.some /\ model.all_solutions)
        => /\ \A i \in 1..Len(Stream) : Stream[i].some
           /\ \A i \in 2..Len(Stream) : Stream[i].val < Stream[i - 1].val
           /\ FirstNone # 0 =>
                 IF Feasible(model) = {} THEN Stream = <<>>
                 ELSE Stream # <<>> /\ Stream[Len(Stream)].val = Minimum(model)

\* C5: with all_solutions = false and no objective, the first call returns
\* Some exactly when the model is satisfiable; every later call returns
\* None, and after a Some it does so at once, without searching.
C5_FirstSolutionOnly ==
    (~model.all_solutions /\ ~model.objective.some)
        => /\ ~Stopped
           /\ hist # <<>> => (hist[1].some <=> Feasible(model) # {})
           /\ \A i \in 2..Len(hist) :
                  ~hist[i].some /\ (hist[1].some => hist[i].line = 192)

\* next() has just returned None because the stack is empty
ExhaustedNone == search.pc = "idle" /\ hist # <<>> /\ search.ret.line = 359

\* the propagator list and the subscriptions are those of construction
AsConstructed ==
    LET S0 == Search_new(model) IN
    /\ search.propagators = S0.propagators
    /\ \A v \in 1..Len(search.vars) : search.vars[v].listeners = S0.vars[v].listeners

\* a step that pops a frame leaves the list the frame saw when entered
PopRestores ==
    Len(search'.stack) < Len(search.stack)
        => search'.propagators = entered[Len(entered)]

\* C7: when next() returns None because the tree is exhausted, the
\* propagator list is the list installed at construction, each of its
\* propagators is subscribed to its variables and no propagator installed
\* during the search is left subscribed or listed; and popping a frame
\* leaves the propagator list as it was when the frame was entered.
C7_PropagatorsRestored ==
    [](ExhaustedNone => AsConstructed) /\ [][PopRestores]_vars

\* the tree of a model with an Implied constraint is exhausted after a
\* solution with b = 1, for which the inner propagator was installed
C7_Witness ==
    /\ ExhaustedNone
    /\ model.cons # <<>> /\ model.cons[1].kind = "Implied"
    /\ search.propagator_id_ctr > Len(search.propagators)
    /\ \E i \in 1..Len(hist) : hist[i].some /\ hist[i].doms[3] = {1}

-----------------------------------------------------------------------------
(* TreeConstraint::satisfied (graph.rs).  Vertex i of the code is entry     *)
(* i + 1 of parent; out and used are indexed the same way.                  *)

TreeN == 3         \* most vertices of one TreeConstraint

\* the while loop over the queue q: [ok |-> FALSE] stands for return false
RECURSIVE TreeConstraint_bfs(_, _, _)
TreeConstraint_bfs(q, used, out) ==
    IF q = <<>> THEN [ok |-> TRUE, used |-> used]
    ELSE LET u == Head(q)
             ws == out[u + 1]
         IN  IF \E k \in 1..Len(ws) : ws[k] \in used THEN [ok |-> FALSE, used |-> used]
             ELSE TreeConstraint_bfs(Tail(q) \o ws,
                                     used \cup {ws[k] : k \in 1..Len(ws)},
                                     [out EXCEPT ![u + 1] = <<>>])

TreeConstraint_satisfied(ntree, parent) ==
    LET n == Len(parent)
        j(i) == Variable_value(parent[i + 1])
        out0 == [u \in 1..n |-> SortedSeq({i \in 0..(n - 1) : j(i) = u - 1 /\ i # u - 1})]
        trees == SortedSeq({i \in 0..(n - 1) : j(i) = i})
        RECURSIVE Roots(_, _)
        Roots(k, used) ==
            IF k > Len(trees) THEN TRUE
            ELSE IF trees[k] \in used THEN FALSE
            ELSE LET r == TreeConstraint_bfs(<<trees[k]>>, used \cup {trees[k]}, out0)
                 IN  r.ok /\ Roots(k + 1, r.used)
    IN  IF ~SmallDomain_is_assigned(ntree) THEN FALSE
        ELSE IF \E i \in 1..n : ~SmallDomain_is_assigned(parent[i]) THEN FALSE
        ELSE IF ~Roots(1, {}) THEN FALSE
        ELSE Variable_value(ntree) = Len(trees)

\* a domain is one value or the whole interval
TreeDoms(lo, hi) == {{x} : x \in lo..hi} \cup {lo..hi}

TreeInit ==
    /\ \E n \in 1..TreeN : \E P \in [1..n -> TreeDoms(0, n - 1)] : \E T \in TreeDoms(0, n) :
           args = [fn |-> "tree_satisfied",
                   ntree |-> SmallDomain_of(SmallDomain_new(0, n), T),
                   parent |-> [i \in 1..n |-> SmallDomain_of(SmallDomain_new(0, n - 1), P[i])]]
    /\ result = [done |-> FALSE]
    /\ DomIdle
    /\ SearchIdle

TreeCall ==
    /\ args.fn = "tree_satisfied"
    /\ ~result.done
    /\ result' = [done |-> TRUE, out |-> TreeConstraint_satisfied(args.ntree, args.parent)]
    /\ UNCHANGED <<args, domVars, searchVars>>

TreeSpec == TreeInit /\ [][TreeCall]_vars

\* the vertex reached from v by k parent links, in an assigned parent vector
RECURSIVE TreeAncestor(_, _, _)
TreeAncestor(par, v, k) == IF k = 0 THEN v ELSE TreeAncestor(par, par[v + 1], k - 1)

\* C11: satisfied() is true exactly when ntree and every parent variable
\* are assigned and the parent links form a spanning forest (every vertex
\* reaches a vertex that is its own parent) with ntree.value() roots.
C11_SatisfiedIffSpanningForest ==
    (args.fn = "tree_satisfied" /\ result.done)
        => LET n == Len(args.parent)
               assigned == /\ SmallDomain_size(args.ntree) = 1
                           /\ \A i \in 1..n : SmallDomain_size(args.parent[i]) = 1
               par == [i \in 1..n |-> SetMin(SmallDomain_iter(args.parent[i]))]
               root(v) == par[v + 1] = v
           IN  result.out <=>
                   /\ assigned
                   /\ \A v \in 0..(n - 1) : root(TreeAncestor(par, v, n))
                   /\ Cardinality({v \in 0..(n - 1) : root(v)})
                          = SetMin(SmallDomain_iter(args.ntree))

-----------------------------------------------------------------------------
(* Further properties of the domains (DomSpec)                              *)

\* the values of the domain under test
DomVals == IF dlast.which = "small" THEN SmallDomain_iter(sd) ELSE BitsetDomain_iter(bd)

\* C12: a mutation (assign, remove, set_lb, set_ub; either representation)
\* that leaves the domain empty returns Failed, which goes with setting the
\* failed flag: no domain is empty after a call that did not fail.
C12_EmptyingFails ==
    (dlast.op \in Mutations /\ DomVals = {}) => dlast.state = Failed

\* C13: while the domain is not empty, get_lb() is its smallest and
\* get_ub() its largest value, size() is the number of its values and
\* iter() yields exactly its values, in both representations.
C13_BoundsAndSizeMatchValues ==
    (dlast.state # "Panic" /\ DomVals # {})
        => IF dlast.which = "small"
           THEN /\ SmallDomain_get_lb(sd) = SetMin(DomVals)
                /\ SmallDomain_get_ub(sd) = SetMax(DomVals)
                /\ SmallDomain_size(sd) = Cardinality(DomVals)
           ELSE /\ BitsetDomain_get_lb(bd) = SetMin(DomVals)
                /\ BitsetDomain_get_ub(bd) = SetMax(DomVals)
                /\ BitsetDomain_size(bd) = Cardinality(DomVals)

\* value() of a variable over the domain under test: a panic when the
\* bounds differ, else the lower bound
DomValue ==
    LET lb == IF dlast.which = "small" THEN SmallDomain_get_lb(sd)
              ELSE BitsetDomain_get_lb(bd)
        ub == IF dlast.which = "small" THEN SmallDomain_get_ub(sd)
              ELSE BitsetDomain_get_ub(bd)
    IN  [panic |-> lb # ub, val |-> lb]

\* C14: value() returns the one value left whenever the domain is a
\* singleton, and panics for a domain of two or more values.
C14_ValueOfSingleton ==
    (dlast.state # "Panic" /\ (dlast.which = "bitset" => BitsetDefined(bd)))
        => /\ Cardinality(DomVals) = 1 => ~DomValue.panic /\ DomVals = {DomValue.val}
           /\ Cardinality(DomVals) >= 2 => DomValue.panic

-----------------------------------------------------------------------------
(* One Variable with a subscriber on every event kind, mutated through the  *)
(* facade (variable.rs).  S is the record held by `search`; `hist` holds    *)
(* the last call and the values before it.                                  *)

VarUb == 3         \* the variable starts as 0..VarUb

\* subscriber ids in the order of the discriminants of Event
VarProbes == <<"Modified", "LowerBound", "UpperBound", "Assigned", "Removed">>
VarProbe(e) == CHOOSE id \in 0..(Len(VarProbes) - 1) : VarProbes[id + 1] = e

\* every probe subscribed, nothing queued, the failed flag clear: what the
\* engine re-establishes between two propagator calls
Var_listening(d) ==
    [pc |-> "var",
     vars |-> <<[domain |-> d,
                 listeners |-> [e \in Events |-> Variable_add_listener({}, VarProbe(e))]]>>,
     pobj |-> [i \in 1..Len(VarProbes) |->
                  [con |-> [kind |-> "Probe", event |-> VarProbes[i]],
                   has_new_events |-> FALSE, queued |-> FALSE]],
     propagation_queue |-> <<>>, resched_current |-> FALSE, status |-> 0]

VarInit ==
    /\ search = Var_listening(SmallDomain_new(0, VarUb))
    /\ hist = <<>>
    /\ model = [none |-> TRUE]
    /\ entered = <<>>
    /\ DomIdle
    /\ CallIdle

\* one call op(x) made while propagator `running` is inside propagate()
\* (-1: none); T is the state the call leaves
VarApply(op, x, running, T) ==
    /\ search' = T
    /\ hist' = <<[op |-> op, x |-> x, running |-> running,
                  before |-> SmallDomain_iter(search.vars[1].domain)]>>
    /\ UNCHANGED <<model, entered, domVars, callVars>>

VarAssign ==
    \E x \in 0..VarUb, running \in -1..(Len(VarProbes) - 1), ord \in Orders :
        VarApply("assign", x, running,
                 Variable_assign(Var_listening(search.vars[1].domain), 1, x,
                                 [running |-> running, ord |-> ord]))

VarRemove ==
    \E x \in 0..VarUb, running \in -1..(Len(VarProbes) - 1), ord \in Orders :
        VarApply("remove", x, running,
                 Variable_remove(Var_listening(search.vars[1].domain), 1, x,
                                 [running |-> running, ord |-> ord]))

VarSetLb ==
    \E x \in 0..VarUb, running \in -1..(Len(VarProbes) - 1), ord \in Orders :
        VarApply("set_lb", x, running,
                 Variable_set_lb(Var_listening(search.vars[1].domain), 1, x,
                                 [running |-> running, ord |-> ord]))

VarSetUb ==
    \E x \in 0..VarUb, running \in -1..(Len(VarProbes) - 1), ord \in Orders :
        VarApply("set_ub", x, running,
                 Variable_set_ub(Var_listening(search.vars[1].domain), 1, x,
                                 [running |-> running, ord |-> ord]))

VarNext ==
    \/ VarAssign
    \/ VarRemove
    \/ VarSetLb
    \/ VarSetUb

VarSpec == VarInit /\ [][VarNext]_vars

\* the values after the last call, and whether it notified the subscriber
\* of event e: marked and queued, or rescheduled when it is the running one
VarAfter == SmallDomain_iter(search.vars[1].domain)
VarNotified(e) ==
    LET id == VarProbe(e) IN
    IF hist[1].running = id THEN search.resched_current
    ELSE /\ search.pobj[id + 1].has_new_events
         /\ search.pobj[id + 1].queued
         /\ \E k \in 1..Len(search.propagation_queue) : search.propagation_queue[k] = id

\* C15: a mutation that changes the domain and leaves exactly one value
\* notifies the subscribers of Assigned.
C15_AssignedNotified ==
    (hist # <<>> /\ search.pc = "var")
        => ((VarAfter # hist[1].before /\ Cardinality(VarAfter) = 1)
                => VarNotified("Assigned"))

\* C16: a mutation that moves the lower (upper) bound notifies the
\* subscribers of LowerBound (UpperBound), and every change of the domain
\* notifies the subscribers of Modified.
C16_BoundsNotified ==
    (hist # <<>> /\ search.pc = "var" /\ VarAfter # {})
        => /\ SetMin(VarAfter) # SetMin(hist[1].before) => VarNotified("LowerBound")
           /\ SetMax(VarAfter) # SetMax(hist[1].before) => VarNotified("UpperBound")
           /\ VarAfter # hist[1].before => VarNotified("Modified")

------------------------------------------------------------------------------
(* binary_search_optimizer (solver.rs): minimisation by bisection over a    *)
(* family of satisfaction instances                                         *)

\* width in bits of the optimizer's integers; stands for the 64 bits of i64
OptBits == 4

OptInts == (0 - 2 ^ (OptBits - 1)) .. (2 ^ (OptBits - 1) - 1)

\* the sets of x whose instance create_solver(x) solves as not Infeasible:
\* every threshold (feasibility monotone in x) and every single point
OptOracles ==
    {{x \in OptInts : x >= t} : t \in OptInts \cup {2 ^ (OptBits - 1)}}
        \cup {{x} : x \in OptInts}

\* the optimizer called with bounds l and r on a family given by its
\* feasible set; checks tells whether the build traps integer overflow
OptInit ==
    /\ \E l \in OptInts, r \in OptInts, F \in OptOracles, c \in BOOLEAN :
           args = [fn |-> "binary_search_optimizer", kind |-> "oracle",
                   l |-> l, r |-> r, feas |-> F, checks |-> c,
                   bits |-> OptBits]
    /\ result = [done |-> FALSE, pc |-> "while", panic |-> FALSE,
                 l |-> args.l, r |-> args.r, mid |-> 0,
                 solved |-> {}, feasible |-> {}, chk |-> [i |-> 0, load |-> <<>>]]
    /\ DomIdle
    /\ SearchIdle

\* while r - l > 1 { let mid = (l + r) / 2; let mut solver = create_solver(mid);
\* ... } r -- i64 arithmetic: an overflow panics with overflow checks and
\* wraps without them; the division truncates towards zero
OptWhile ==
    /\ args.fn = "binary_search_optimizer"
    /\ result.pc = "while"
    /\ LET half == 2 ^ (args.bits - 1)
           fits(x) == (0 - half) <= x /\ x < half
           wrap(x) == ((x + 2 * half + half) % (2 * half)) - half
           quot(x) == IF x >= 0 THEN x \div 2 ELSE 0 - ((0 - x) \div 2)
           l == result.l
           r == result.r
           mid == quot(wrap(l + r))
           panicked == [result EXCEPT !.pc = "panic", !.done = TRUE, !.panic = TRUE]
       IN  result' =
               IF args.checks /\ ~fits(r - l) THEN panicked
               ELSE IF wrap(r - l) > 1
                    THEN IF args.checks /\ ~fits(l + r) THEN panicked
                         ELSE [result EXCEPT !.pc = "solve", !.mid = mid,
                                             !.solved = @ \cup {mid}]
                    ELSE [result EXCEPT !.pc = "return", !.done = TRUE]
    /\ UNCHANGED <<args, domVars, searchVars>>

\* if solver.solve() != SolutionStatus::Infeasible { r = mid } else { l = mid }
OptSolve ==
    /\ args.fn = "binary_search_optimizer"
    /\ args.kind = "oracle"
    /\ result.pc = "solve"
    /\ result' = IF result.mid \in args.feas
                 THEN [result EXCEPT !.pc = "while", !.r = result.mid,
                                     !.feasible = @ \cup {result.mid}]
                 ELSE [result EXCEPT !.pc = "while", !.l = result.mid]
    /\ UNCHANGED <<args, domVars, searchVars>>

OptNext == OptWhile \/ OptSolve

OptSpec == OptInit /\ [][OptNext]_vars

\* the optimizer is a sequential loop: a step that is enabled is taken
OptLive == OptSpec /\ WF_vars(OptNext)

\* the instances strictly between the bounds the optimizer was called with
OptBetween == {x \in OptInts : args.l < x /\ x < args.r}

OptMonotone == \A x \in args.feas : \A y \in OptInts : y >= x => y \in args.feas

\* C20: called with l < r the optimizer returns, and solves only instances
\* strictly between l and r; when feasibility is monotone, l is infeasible
\* and r is feasible, it returns the least feasible x; when nothing strictly
\* between l and r is feasible it returns r and never solves the instance at r
C20_OptimizerContract ==
    /\ [](args.l < args.r =>
            /\ ~result.panic
            /\ result.solved \subseteq OptBetween
            /\ result.done =>
                 /\ (OptMonotone /\ args.l \notin args.feas /\ args.r \in args.feas)
                        => result.r = SetMin(args.feas)
                 /\ (args.feas \cap OptBetween = {})
                        => (result.r = args.r /\ args.r \notin result.solved))
    /\ <>result.done

------------------------------------------------------------------------------
(* The optimizer over bin-packing instances (examples/binpacking): the      *)
(* instance for x has x bins; solve() ends with assert!(check_solution()),  *)
(* which runs BinPackingConstraint::satisfied on the values the search left *)

\* item weights and bin capacity of the instances, as read from a BPP file
BinInstances ==
    {[weight |-> <<4, 4, 3, 3, 2, 2>>, capacity |-> 5],
     [weight |-> <<4, 4, 3>>, capacity |-> 5],
     [weight |-> <<3, 2>>, capacity |-> 5]}

\* binary_search_optimizer(create_solver, 0, items.len() as i64); the sums
\* of these calls stay far from the ends of a 16-bit range, let alone i64
BinInit ==
    /\ \E I \in BinInstances, c \in BOOLEAN :
           args = [fn |-> "binary_search_optimizer", kind |-> "binpacking",
                   l |-> 0, r |-> Len(I.weight), weight |-> I.weight,
                   capacity |-> I.capacity, checks |-> c, bits |-> 16]
    /\ result = [done |-> FALSE, pc |-> "while", panic |-> FALSE,
                 l |-> args.l, r |-> args.r, mid |-> 0,
                 solved |-> {}, feasible |-> {}, chk |-> [i |-> 0, load |-> <<>>]]
    /\ DomIdle
    /\ SearchIdle

\* Solver::solve without an objective: let res = self.search(); if res {
\* assert!(self.check_solution()); Feasible } else { Infeasible }. What the
\* search answers, and the values it leaves, are inputs of this model.
BinSolve ==
    /\ args.fn = "binary_search_optimizer"
    /\ args.kind = "binpacking"
    /\ result.pc = "solve"
    /\ \E res \in BOOLEAN :
           result' = IF res
                     THEN [result EXCEPT !.pc = "satisfied",
                              !.chk = [i |-> 0, load |-> [j \in 1..result.mid |-> 0]]]
                     ELSE [result EXCEPT !.pc = "while", !.l = result.mid]
    /\ UNCHANGED <<args, domVars, searchVars>>

\* the assertion of solve() fails
BinPanicked ==
    [result EXCEPT !.pc = "panic", !.done = TRUE, !.panic = TRUE,
                   !.chk = [i |-> 0, load |-> <<>>]]

\* satisfied(), first loop: an assignment variable that is not assigned
\* (read here as -1) gives false; else load[bin] += weight[i]
BinSatisfiedItem ==
    /\ args.fn = "binary_search_optimizer"
    /\ result.pc = "satisfied"
    /\ result.chk.i < Len(args.weight)
    /\ \E bin \in (0 - 1) .. (result.mid - 1) :
           result' = IF bin = 0 - 1 THEN BinPanicked
                     ELSE [result EXCEPT
                              !.chk.i = @ + 1,
                              !.chk.load[bin + 1] = @ + args.weight[result.chk.i + 1]]
    /\ UNCHANGED <<args, domVars, searchVars>>

\* the second loop with the comparison of the load left out
BinSatisfiedLoad_unchecked ==
    /\ args.fn = "binary_search_optimizer"
    /\ result.pc = "satisfied"
    /\ result.chk.i >= Len(args.weight)
    /\ \E v \in (0 - 1) .. args.capacity :
           LET j == result.chk.i - Len(args.weight) + 1 IN
           result' = IF v = 0 - 1 THEN BinPanicked
                     ELSE IF j < result.mid THEN [result EXCEPT !.chk.i = @ + 1]
                     ELSE [result EXCEPT !.pc = "while", !.r = result.mid,
                                         !.feasible = @ \cup {result.mid},
                                         !.chk = [i |-> 0, load |-> <<>>]]
    /\ UNCHANGED <<args, domVars, searchVars>>

\* satisfied(), second loop: a load variable that is not assigned (-1), or
\* whose value differs from load[i], gives false; after the last bin the
\* answer is true, solve() returns Feasible and the optimizer sets r = mid
BinSatisfiedLoad ==
    /\ args.fn = "binary_search_optimizer"
    /\ result.pc = "satisfied"
    /\ result.chk.i >= Len(args.weight)
    /\ \E v \in (0 - 1) .. args.capacity :
           LET j == result.chk.i - Len(args.weight) + 1 IN
           result' = IF v = 0 - 1 \/ result.chk.load[j] # v THEN BinPanicked
                     ELSE IF j < result.mid THEN [result EXCEPT !.chk.i = @ + 1]
                     ELSE [result EXCEPT !.pc = "while", !.r = result.mid,
                                         !.feasible = @ \cup {result.mid},
                                         !.chk = [i |-> 0, load |-> <<>>]]
    /\ UNCHANGED <<args, domVars, searchVars>>

BinNext == OptWhile \/ BinSolve \/ BinSatisfiedItem \/ BinSatisfiedLoad

BinSpec == BinInit /\ [][BinNext]_vars

\* the optimizer has returned on the instance [4,4,3,3,2,2] with capacity 5
BinReturned ==
    /\ args.fn = "binary_search_optimizer"
    /\ args.kind = "binpacking"
    /\ args.weight = <<4, 4, 3, 3, 2, 2>>
    /\ result.done
    /\ ~result.panic

\* C19 as stated: on weights [4,4,3,3,2,2] with capacity 5 the optimizer
\* called with l = 0 and r = 6 returns 3
C19_ReturnsThree == BinReturned => result.r = 3

\* C19: on weights [4,4,3,3,2,2] with capacity 5 the optimizer called with
\* l = 0 and r = 6 never returns fewer than 4 bins (no packing into 3 bins
\* exists), and returns 4 exactly when solve() answers the instance with 4
\* bins as not Infeasible
C19_ReturnsFour ==
    BinReturned => /\ result.r >= 4
                   /\ result.r = 4 <=> 4 \in result.feasible
                   /\ 3 \in result.solved /\ 3 \notin result.feasible

C19_Witness == BinReturned /\ result.r = 4 /\ result.solved = {3, 4}

------------------------------------------------------------------------------
(* The search under a time limit (Config::time_limit). The steps of next() *)
(* are those of search.rs; the clock, the consultations of the limit and    *)
(* whole_tree_explored follow the specification of the engine.              *)

\* largest time limit, in ticks of the clock
MaxLimit == 2

\* the records one step of next() can lead to, over the notification orders
Search_steps(S, m) ==
    IF S.pc = "loop"
    THEN IF S.stack = <<>> THEN {Search_exhausted(S, m, ord) : ord \in Orders}
         ELSE IF S.stack[Len(S.stack)].var # 0
         THEN {Search_branch(S, m, ord) : ord \in Orders}
         ELSE {Search_enter_node(S)}
    ELSE IF S.pc = "prop"
    THEN IF S.propagation_queue # <<>>
         THEN {Search_propagate(S, ord) : ord \in Orders}
         ELSE {Search_after_propagate(S, m)}
    ELSE IF S.pc = "propfail" THEN {Search_fail_node(S)}
    ELSE {}

\* next() gives up: None, from no line of search.rs
Search_timeout(S) ==
    [S EXCEPT !.pc = "idle", !.ret = [some |-> FALSE, val |-> 0, line |-> 0]]

\* the places where next() consults the limit: before a branch is chosen
\* and before a round of propagation
Search_consults(S) ==
    \/ S.pc = "loop" /\ S.stack # <<>> /\ S.stack[Len(S.stack)].var # 0
    \/ S.pc = "prop" /\ S.propagation_queue # <<>>

TimedModels == {m \in Models : ~m.objective.some /\ m.brancher = "MinValue"}

\* spent: ticks counted against the limit; waited: ticks since next() last
\* returned; slept: a call was made after a wait longer than the limit;
\* timeout_at: the call that gave up (0: none)
TimedInit ==
    /\ model \in TimedModels
    /\ search = Search_new(model)
    /\ hist = <<>>
    /\ entered = << <<>> >>
    /\ \E L \in 1..MaxLimit : args = [fn |-> "time_limit", limit |-> L]
    /\ result = [done |-> FALSE, spent |-> 0, waited |-> 0, slept |-> FALSE,
                 timeout_at |-> 0, whole_tree_explored |-> FALSE]
    /\ DomIdle

TimedStep(S, t) ==
    /\ search' = S
    /\ hist' = Returned(hist, S)
    /\ result' = t
    /\ UNCHANGED <<model, entered, args, domVars>>

\* a call of next() that starts as if the limit had never been found expired
TimedNextCall_forgets ==
    /\ search.pc = "idle"
    /\ Len(hist) < MaxCalls
    /\ TimedStep(Search_next_enter(search, model),
                 [result EXCEPT !.waited = 0,
                                !.slept = @ \/ result.waited > args.limit])

\* a call of next(): None at once after a timeout, else the head of next()
TimedNextCall ==
    /\ search.pc = "idle"
    /\ Len(hist) < MaxCalls
    /\ LET t == [result EXCEPT !.waited = 0,
                               !.slept = @ \/ result.waited > args.limit]
       IN  IF result.timeout_at # 0 THEN TimedStep(Search_timeout(search), t)
           ELSE TimedStep(Search_next_enter(search, model), t)

\* the clock advances between two calls and the wait is counted as well
TimedWait_counted ==
    /\ search.pc = "idle"
    /\ hist # <<>>
    /\ result.waited <= args.limit
    /\ result' = [result EXCEPT !.waited = @ + 1,
                                !.spent = IF @ < args.limit THEN @ + 1 ELSE @]
    /\ UNCHANGED <<args, searchVars, domVars>>

\* the clock advances between two calls: the caller holds a solution
TimedWait ==
    /\ search.pc = "idle"
    /\ hist # <<>>
    /\ result.waited <= args.limit
    /\ result' = [result EXCEPT !.waited = @ + 1]
    /\ UNCHANGED <<args, searchVars, domVars>>

\* the clock advances inside next()
TimedTick ==
    /\ search.pc \in {"loop", "prop", "propfail"}
    /\ result.spent < args.limit
    /\ result' = [result EXCEPT !.spent = @ + 1]
    /\ UNCHANGED <<args, searchVars, domVars>>

\* one step of next(): where the limit is consulted and found reached the
\* call gives up; else the step of search.rs is taken, and a step from the
\* empty stack records that the whole tree was explored
TimedRun ==
    /\ search.pc \in {"loop", "prop", "propfail"}
    /\ IF Search_consults(search) /\ result.spent >= args.limit
       THEN TimedStep(Search_timeout(search),
                      [result EXCEPT !.timeout_at = Len(hist) + 1])
       ELSE \E S \in Search_steps(search, model) :
                TimedStep(S, [result EXCEPT !.whole_tree_explored =
                                  @ \/ (search.pc = "loop" /\ search.stack = <<>>)])

TimedNext == TimedNextCall \/ TimedWait \/ TimedTick \/ TimedRun

TimedSpec == TimedInit /\ [][TimedNext]_vars

\* next() has just returned None from the empty stack
TimedExhausted ==
    search.pc = "idle" /\ hist # <<>> /\ ~search.ret.some /\ search.ret.line = 359

------------------------------------------------------------------------------
(* Further properties of the propagation rounds of Search::next             *)

SeqRange(q) == {q[i] : i \in 1..Len(q)}

\* the ids of the frames' terminated lists, the frame in hand included
RECURSIVE SeqUnion(_)
SeqUnion(ss) == IF ss = <<>> THEN {} ELSE SeqRange(Head(ss)) \cup SeqUnion(Tail(ss))

\* the registered propagators that no frame has terminated
SearchActive(S) ==
    SeqRange(S.propagators)
        \ (SeqRange(S.node.terminated)
             \cup SeqUnion([i \in 1..Len(S.stack) |-> S.stack[i].terminated]))

\* propagate() has returned true for the frame in hand
RoundEnded == search.pc = "prop" /\ search.propagation_queue = <<>>

\* C21: when the round of a frame ends without failure, running any
\* registered propagator that is not terminated changes no domain, raises
\* no failure and does not panic
C21_FixpointAfterRound ==
    RoundEnded =>
        \A id \in SearchActive(search) : \A ord \in Orders :
            LET r == Propagator_propagate(search, id, ord) IN
            /\ ~r.panic
            /\ r.S.status # 0 - 1
            /\ \A v \in 1..Len(search.vars) :
                   SmallDomain_iter(r.S.vars[v].domain)
                       = SmallDomain_iter(search.vars[v].domain)

\* variable v fired event e between S and T, for a call that mutates through
\* set_lb, set_ub (bound events) or assign (Modified)
FiredBetween(S, T, v, e) ==
    LET d == S.vars[v].domain
        d1 == T.vars[v].domain
    IN  IF e = "LowerBound" THEN SmallDomain_get_lb(d1) # SmallDomain_get_lb(d)
        ELSE IF e = "UpperBound" THEN SmallDomain_get_ub(d1) # SmallDomain_get_ub(d)
        ELSE e = "Modified" /\ SmallDomain_iter(d1) # SmallDomain_iter(d)

\* a round of propagate() ran the propagator at the head of the queue, which
\* is not idempotent, and it returned Normal without failure
RanNormal ==
    /\ search.pc = "prop" /\ search.propagation_queue # <<>>
    /\ search'.pc = "prop" /\ search' # search
    /\ ~Propagator_is_idempotent(search.pobj[Head(search.propagation_queue) + 1].con)
    /\ search'.node.terminated = search.node.terminated

\* C22: when a variable fires, during the call of a non-idempotent
\* propagator, an event kind the propagator subscribes to on that variable,
\* the propagator is at the back of the queue, and there only, once the
\* call has returned Normal without failure
C22_RunningIsRescheduled ==
    [][LET p == Head(search.propagation_queue)
           q == search'.propagation_queue
       IN  (/\ RanNormal
            /\ \E ve \in Propagator_events(search.pobj[p + 1].con) :
                   FiredBetween(search, search', ve[1], ve[2]))
               => /\ q # <<>>
                  /\ q[Len(q)] = p
                  /\ \A i \in 1..(Len(q) - 1) : q[i] # p]_vars

\* the frame that propagate() is filling, or else the top of the stack
FrameInHand(S) ==
    IF S.pc \in {"prop", "propfail"} THEN S.node ELSE S.stack[Len(S.stack)]

\* the propagators terminated by a frame that is on the stack
TerminatedIds(S) ==
    SeqUnion([i \in 1..Len(S.stack) |-> S.stack[i].terminated])
        \cup (IF S.pc \in {"prop", "propfail"} THEN SeqRange(S.node.terminated) ELSE {})

\* the (variable, event) pairs propagator id is subscribed to
Subscribed(S, id) ==
    {ve \in (1..Len(S.vars)) \X Events : id \in S.vars[ve[1]].listeners[ve[2]]}

\* C23: a propagator that returned Terminated in a frame is subscribed to
\* nothing and is not queued while the frame is on the stack, so that it is
\* not run again; the step that pops the frame subscribes it again to all
\* its events
C23_TerminatedUntilPop ==
    /\ [](search.pc \notin {"none", "var", "panic", "overflow"} =>
            \A id \in TerminatedIds(search) :
                /\ Subscribed(search, id) = {}
                /\ ~search.pobj[id + 1].queued
                /\ id \notin SeqRange(search.propagation_queue))
    /\ [][(search.stack # <<>> /\ Len(search'.stack) < Len(search.stack))
            => \A id \in SeqRange(FrameInHand(search).terminated) :
                   Propagator_events(search.pobj[id + 1].con)
                       \subseteq Subscribed(search', id)]_vars

\* a frame that terminated a propagator has a frame above it
C23_Witness ==
    /\ search.pc = "prop"
    /\ Len(search.stack) >= 2
    /\ \E i \in 1..(Len(search.stack) - 1) : search.stack[i].terminated # <<>>

\* a round of propagate() ran a propagator and the failed flag is set
RanFailed ==
    /\ search.pc = "prop" /\ search.propagation_queue # <<>>
    /\ search' # search
    /\ search'.status = 0 - 1

\* the registered propagators that no frame on the stack has terminated
SearchLive(S) ==
    SeqRange(S.propagators)
        \ SeqUnion([i \in 1..Len(S.stack) |-> S.stack[i].terminated])

\* C24: a propagator call that leaves the failed flag set ends the round,
\* no other propagator runs; the next step pops the failed frame and leaves
\* the queue empty, no propagator queued, every live propagator subscribed
\* to all its events and the failed flag clear
C24_FailureLeavesCleanState ==
    /\ [][RanFailed => search'.pc = "propfail"]_vars
    /\ [][(search.pc = "propfail" /\ search' # search)
            => /\ search'.pc = "loop"
               /\ search'.stack = Pop(search.stack)
               /\ search'.propagation_queue = <<>>
               /\ \A i \in 1..Len(search'.pobj) : ~search'.pobj[i].queued
               /\ search'.status = 0
               /\ \A id \in SearchLive(search') :
                      Propagator_events(search'.pobj[id + 1].con)
                          \subseteq Subscribed(search', id)]_vars

\* propagate() has returned false for a frame below the root
C24_Witness == search.pc = "propfail" /\ Len(search.stack) >= 2

-----------------------------------------------------------------------------
(* Termination of next() and the calls that follow None                     *)

\* C25: every call of next() returns with a bounded stack: the stack never
\* outgrows the frames a search needs whose every branch shrinks a domain
\* (one frame for each value of each variable, and Slack)
C25_NextTerminates == search.pc # "overflow"

\* the calls answered after the first None
AfterNone == IF FirstNone = 0 THEN <<>> ELSE SubSeq(hist, FirstNone + 1, Len(hist))

\* C26: once next() has returned None, every later call returns None, does
\* not panic, and leaves every variable with the domain it had when the
\* first None was returned
C26_NoneIsFinal ==
    FirstNone # 0 =>
        /\ ~Stopped
        /\ \A i \in 1..Len(AfterNone) :
              /\ ~AfterNone[i].some
              /\ AfterNone[i].doms = hist[FirstNone].doms

-----------------------------------------------------------------------------
(* compute_scc: the components of a directed graph by two depth-first       *)
(* passes.  A graph is a function from 0..n-1 to the sequence of the        *)
(* successors of each vertex, as Vec<Vec<usize>> in the code.               *)

SccN == 3          \* most vertices of a graph handed to compute_scc

compute_scc(gr) ==
    LET n == Cardinality(DOMAIN gr)
        V == 0..(n - 1)
        \* for v in 0..n { for u in gr[v] { grt[u].push(v) } }
        grt == [u \in V |->
                  Flatten([v1 \in 1..n |->
                      LET hit == SelectSeq(gr[v1 - 1], LAMBDA x : x = u)
                      IN  [p \in 1..Len(hit) |-> v1 - 1]])]
        \* calc_order(v, ..) from the i-th successor on; used[v] is set
        RECURSIVE calc_order(_, _, _)
        calc_order(st, v, i) ==
            IF i > Len(gr[v]) THEN [st EXCEPT !.order = Append(@, v)]
            ELSE IF st.used[gr[v][i]] THEN calc_order(st, v, i + 1)
            ELSE calc_order(calc_order([st EXCEPT !.used[gr[v][i]] = TRUE],
                                       gr[v][i], 1), v, i + 1)
        RECURSIVE first_pass(_, _)
        first_pass(st, v) ==
            IF v >= n THEN st.order
            ELSE IF st.used[v] THEN first_pass(st, v + 1)
            ELSE first_pass(calc_order([st EXCEPT !.used[v] = TRUE], v, 1), v + 1)
        \* mark_component(v, grt, ..) from the i-th predecessor on; v has
        \* been marked used and pushed
        RECURSIVE mark_component(_, _, _)
        mark_component(st, v, i) ==
            IF i > Len(grt[v]) THEN st
            ELSE IF st.used[grt[v][i]] THEN mark_component(st, v, i + 1)
            ELSE mark_component(
                     mark_component([st EXCEPT !.used[grt[v][i]] = TRUE,
                                               !.component = Append(@, grt[v][i])],
                                    grt[v][i], 1), v, i + 1)
        \* used[v] = true; component.push(v); and the walk from v
        marked(used, v) ==
            mark_component([used |-> [used EXCEPT ![v] = TRUE], component |-> <<v>>],
                           v, 1)
        \* ans.push(component.clone())
        push(acc, st) == [used |-> st.used, ans |-> Append(acc.ans, st.component)]
        \* for v in order.drain(..), order having been reversed
        RECURSIVE second_pass(_, _, _)
        second_pass(order, acc, k) ==
            IF k < 1 THEN acc.ans
            ELSE second_pass(order, push(acc, marked(acc.used, order[k])), k - 1)
        passes(order) ==
            second_pass(order, [used |-> [v \in V |-> FALSE], ans |-> <<>>], Len(order))
    IN  passes(first_pass([used |-> [v \in V |-> FALSE], order |-> <<>>], 0))

SccGraphs ==
    UNION {[0..(n - 1) -> {SortedSeq(A) : A \in SUBSET (0..(n - 1))}] : n \in 1..SccN}

SccInit ==
    /\ \E gr \in SccGraphs : args = [fn |-> "compute_scc", gr |-> gr]
    /\ result = [done |-> FALSE]
    /\ DomIdle
    /\ SearchIdle

SccCall ==
    /\ args.fn = "compute_scc"
    /\ ~result.done
    /\ result' = [done |-> TRUE, out |-> compute_scc(args.gr)]
    /\ UNCHANGED <<args, domVars, searchVars>>

SccSpec == SccInit /\ [][SccCall]_vars

\* v reaches u in gr by a path of zero or more edges
Reaches(gr, v, u) ==
    LET RECURSIVE closure(_)
        closure(R) ==
            LET R1 == R \cup {w \in DOMAIN gr : \E x \in R : w \in SeqRange(gr[x])}
            IN  IF R1 = R THEN R ELSE closure(R1)
    IN  u \in closure({v})

\* how often vertex v is listed in the returned components
SccOccurrences(comps, v) ==
    Cardinality({ik \in (1..Len(comps)) \X (1..SccN + 1) :
                    ik[2] <= Len(comps[ik[1]]) /\ comps[ik[1]][ik[2]] = v})

\* C27: compute_scc returns a partition of the vertices into strongly
\* connected components: every vertex is listed exactly once, and two
\* vertices are listed in one component iff each reaches the other
C27_SccPartition ==
    (args.fn = "compute_scc" /\ result.done) =>
        /\ \A v \in DOMAIN args.gr : SccOccurrences(result.out, v) = 1
        /\ \A v, u \in DOMAIN args.gr :
              (\E i \in 1..Len(result.out) : {v, u} \subseteq SeqRange(result.out[i]))
                  <=> (Reaches(args.gr, v, u) /\ Reaches(args.gr, u, v))

-----------------------------------------------------------------------------
(* GlobalCardinality: a feasible flow with a capacity for each value, and   *)
(* the components of its residual graph                                     *)

MaxCard == 2       \* capacities of a value are in 0..MaxCard

\* the index of the last returned component that lists v (comp_id[v] = i)
GlobalCardinality_comp_id(scc, v) ==
    SetMax({i \in 1..Len(scc) : v \in SeqRange(scc[i])}) - 1

\* the double loop over the edges of the flow graph, in row order
GlobalCardinalityACPropagator_propagate(doms, card) ==
    LET n == Len(doms)
        \* the edges v -> u of graph g whose value the loop removes; len is
        \* graph.len() and scc the components of g
        cut(g, len, scc) ==
            Flatten([v1 \in 1..len |->
                SelectSeq([j \in 1..Len(g[v1 - 1]) |-> [v |-> v1 - 1, u |-> g[v1 - 1][j]]],
                          LAMBDA e : /\ ~(e.v >= len - 2 \/ e.u >= len - 2)
                                     /\ e.v < n /\ e.v < e.u
                                     /\ GlobalCardinality_comp_id(scc, e.v)
                                            # GlobalCardinality_comp_id(scc, e.u))])
        removed(st, v, r) == [st EXCEPT !.doms[v + 1] = r.dom,
                                        !.failed = @ \/ r.state = Failed]
        RECURSIVE remove_all(_, _, _, _)
        remove_all(st, vals, edges, k) ==
            IF k > Len(edges) THEN st
            ELSE remove_all(removed(st, edges[k].v,
                                    SmallDomain_remove(st.doms[edges[k].v + 1],
                                                       vals[edges[k].u - n + 1])),
                            vals, edges, k + 1)
        \* after matching.matching(ReturnType::FlowGraph)
        pruned(m, g) ==
            IF ~g.some THEN [doms |-> doms, failed |-> TRUE, panic |-> FALSE]
            ELSE remove_all([doms |-> doms, failed |-> FALSE, panic |-> FALSE], m.vals,
                            cut(g.g, m.t + 1, compute_scc(g.g)), 1)
        \* after ACMatching::new
        matched(m) ==
            IF m.panic THEN [doms |-> doms, failed |-> FALSE, panic |-> TRUE]
            ELSE pruned(m, ACMatching_matching(m, "FlowGraph"))
    IN  matched(ACMatching_new(doms, [some |-> TRUE, map |-> card]))

GccInit ==
    /\ \E n \in 1..NVars : \E D \in [1..n -> (SUBSET (0..MaxVal)) \ {{}}] :
       \E K \in SUBSET (0..MaxVal) : \E card \in [K -> 0..MaxCard] :
           args = [fn |-> "gcc", card |-> card,
                   doms |-> [i \in 1..n |-> SmallDomain_of(SmallDomain_new(0, MaxVal), D[i])]]
    /\ result = [done |-> FALSE]
    /\ DomIdle
    /\ SearchIdle

GccPropagate ==
    /\ args.fn = "gcc"
    /\ ~result.done
    /\ result' = [done |-> TRUE,
                  out |-> GlobalCardinalityACPropagator_propagate(args.doms, args.card)]
    /\ UNCHANGED <<args, domVars, searchVars>>

GccSpec == GccInit /\ [][GccPropagate]_vars

\* the assignments of all variables from their domains in which no value
\* is used more often than its capacity (a value without capacity: never)
GccAssignments ==
    {f \in [1..Len(args.doms) -> 0..MaxVal] :
        /\ \A i \in 1..Len(args.doms) : f[i] \in SmallDomain_iter(args.doms[i])
        /\ \A a \in 0..MaxVal :
              LET used == Cardinality({i \in 1..Len(args.doms) : f[i] = a})
              IN  used = 0 \/ (a \in DOMAIN args.card /\ used <= args.card[a])}

\* C28: the propagator removes a value a from dom(v) only if no assignment
\* within the capacities gives v the value a, and signals failure only if
\* there is no assignment within the capacities
C28_GccPrunesOnlyUnsupported ==
    (args.fn = "gcc" /\ result.done /\ ~result.out.panic) =>
        /\ \A i \in 1..Len(args.doms) :
              \A a \in SmallDomain_iter(args.doms[i])
                          \ SmallDomain_iter(result.out.doms[i]) :
                  \A f \in GccAssignments : f[i] # a
        /\ result.out.failed => GccAssignments = {}

-----------------------------------------------------------------------------
(* TreePropagator: bounds of ntree from the sink components, and the edges  *)
(* ruled out by the dominator tree of the extended graph.  Graphs are       *)
(* functions from 0..n-1 to successor sequences, as in compute_scc.         *)

\* stands for usize::MAX, the mark of an entry that was never set
UsizeMax == IntMax

\* DominatorTree::build followed by get_dominators(): idom of every vertex
DominatorTree_build(gr) ==
    LET n0 == Cardinality(DOMAIN gr)
        V == 0..(n0 - 1)
        none == [v \in V |-> UsizeMax]
        st0 == [ptr |-> 0, grt |-> [v \in V |-> <<>>], idom |-> none, sdom |-> none,
                anc |-> none, order |-> none, p |-> none, label |-> [v \in V |-> v],
                bucket |-> [v \in V |-> <<>>]]
        enter(st, v) == [st EXCEPT !.sdom[v] = st.ptr, !.order[st.ptr] = v,
                                   !.ptr = @ + 1]
        \* dfs(v) from the i-th successor on, v having been numbered
        RECURSIVE dfs(_, _, _)
        dfs(st, v, i) ==
            IF i > Len(gr[v]) THEN st
            ELSE LET u == gr[v][i]
                     st1 == IF st.sdom[u] = UsizeMax
                            THEN dfs(enter([st EXCEPT !.p[u] = v], u), u, 1)
                            ELSE st
                 IN  dfs([st1 EXCEPT !.grt[u] = Append(@, v)], v, i + 1)
        \* compress(v) after the recursive call: the label, then the ancestor
        relabel(st, v) ==
            IF st.sdom[st.label[st.anc[v]]] < st.sdom[st.label[v]]
            THEN [st EXCEPT !.label[v] = st.label[st.anc[v]]]
            ELSE st
        shorten(st, v) == [st EXCEPT !.anc[v] = st.anc[st.anc[v]]]
        RECURSIVE compress(_, _)
        compress(st, v) ==
            IF st.anc[st.anc[v]] # UsizeMax
            THEN shorten(relabel(compress(st, st.anc[v]), v), v)
            ELSE st
        labelled(st, v) == [st |-> st, w |-> st.label[v]]
        eval(st, v) ==
            IF st.anc[v] = UsizeMax THEN [st |-> st, w |-> v]
            ELSE labelled(compress(st, v), v)
        \* for u in grt[v]: the semi-dominator of v
        lower(e, v) ==
            IF e.st.sdom[e.w] < e.st.sdom[v]
            THEN [e.st EXCEPT !.sdom[v] = e.st.sdom[e.w]]
            ELSE e.st
        RECURSIVE semi(_, _, _)
        semi(st, v, i) ==
            IF i > Len(st.grt[v]) THEN st
            ELSE semi(lower(eval(st, st.grt[v][i]), v), v, i + 1)
        \* for u in tmp: the drained bucket of p[v]
        settle(e, u, pv) ==
            [e.st EXCEPT !.idom[u] = IF e.st.sdom[e.w] < e.st.sdom[u] THEN e.w ELSE pv]
        RECURSIVE drain(_, _, _, _)
        drain(st, tmp, pv, i) ==
            IF i > Len(tmp) THEN st
            ELSE drain(settle(eval(st, tmp[i]), tmp[i], pv), tmp, pv, i + 1)
        \* the body of the main loop after the semi-dominator of v is known
        link(st, v) ==
            [st EXCEPT !.bucket[st.order[st.sdom[v]]] = Append(@, v),
                       !.anc[v] = st.p[v]]
        take(st, v) ==
            drain([st EXCEPT !.bucket[st.p[v]] = <<>>], st.bucket[st.p[v]], st.p[v], 1)
        \* for j in (1..n).rev()
        RECURSIVE main(_, _)
        main(st, j) ==
            IF j < 1 THEN st
            ELSE main(take(link(semi(st, st.order[j], 1), st.order[j]), st.order[j]),
                      j - 1)
        \* for i in 1..n
        RECURSIVE fix(_, _, _)
        fix(st, i, n) ==
            IF i >= n THEN st
            ELSE LET v == st.order[i]
                 IN  fix(IF st.idom[v] # st.order[st.sdom[v]]
                         THEN [st EXCEPT !.idom[v] = st.idom[st.idom[v]]]
                         ELSE st, i + 1, n)
        \* the loops after dfs(0), n being the number of vertices reached
        finish(walked) == fix(main(walked, walked.ptr - 1), 1, walked.ptr).idom
    IN  [finish(dfs(enter(st0, 0), 0, 1)) EXCEPT ![0] = 0]

\* tin and tout of every vertex of the tree, by a walk from v with parent p
traverse_tree(tree, v0) ==
    LET RECURSIVE walk(_, _, _, _)
        walk(st, v, p, i) ==
            IF i > Len(tree[v])
            THEN [st EXCEPT !.tout[v] = st.time, !.time = @ + 1]
            ELSE LET u == tree[v][i]
                 IN  IF u # p
                     THEN walk(walk([st EXCEPT !.tin[u] = st.time, !.time = @ + 1],
                                    u, v, 1), v, p, i + 1)
                     ELSE walk(st, v, p, i + 1)
    IN  walk([tin |-> [v \in DOMAIN tree |-> 0],
              tout |-> [v \in DOMAIN tree |-> 0], time |-> 1], v0, UsizeMax, 1)

\* ntree.set_lb(x) / set_ub(x) as the propagator reads them: the domain
\* after the call, and false when the call has failed
TreePropagator_tighten(d, x, lower) ==
    LET r == IF lower THEN SmallDomain_set_lb(d, x) ELSE SmallDomain_set_ub(d, x)
    IN  [dom |-> r.dom, ok |-> r.state # Failed]

\* the test of the last loop with the two nodes exchanged
TreePropagator_inside_swapped(t, v, u) ==
    t.tin[u + 1] < t.tin[v + 1] /\ t.tout[u + 1] > t.tout[v + 1]

\* the test of the last loop of propagate on the entry and exit times
TreePropagator_inside(t, v, u) ==
    t.tin[v + 1] < t.tin[u + 1] /\ t.tout[v + 1] > t.tout[u + 1]

TreePropagator_propagate(ntree, parent) ==
    LET n == Len(parent)
        iter(v) == SortedSeq(SmallDomain_iter(parent[v + 1]))
        gr == [v \in 0..(n - 1) |-> SelectSeq(iter(v), LAMBDA u : u # v)]
        pushes == Flatten([v1 \in 1..n |->
                      Flatten([j \in 1..Len(iter(v1 - 1)) |->
                          LET v == v1 - 1
                              u == iter(v)[j]
                          IN  IF u # v THEN <<[row |-> u + 1, x |-> v + 1]>>
                              ELSE <<[row |-> 0, x |-> v + 1],
                                     [row |-> v + 1, x |-> 0]>>])])
        ext_gr == [w \in 0..n |->
                     LET hit == SelectSeq(pushes, LAMBDA e : e.row = w)
                     IN  [j \in 1..Len(hit) |-> hit[j].x]]
        maxtree == Cardinality({v \in 0..(n - 1) : v \in SmallDomain_iter(parent[v + 1])})
        comp_id(comps, v) == SetMax({i \in 1..Len(comps) : v \in SeqRange(comps[i])}) - 1
        sink(comps, c) == ~\E v \in 0..(n - 1) :
                              /\ comp_id(comps, v) = c
                              /\ \E j \in 1..Len(gr[v]) : comp_id(comps, gr[v][j]) # c
        mintree(comps) == Cardinality({c \in 0..(Len(comps) - 1) : sink(comps, c)})
        tree(dom) == [d \in 0..n |-> SortedSeq({i \in 0..n : dom[i] = d /\ i # d})]
        \* the edges v -> u the last loop removes, in the order of the loop
        cut(t) == Flatten([v1 \in 1..n |->
                      SelectSeq([j \in 1..Len(gr[v1 - 1]) |->
                                    [v |-> v1 - 1, u |-> gr[v1 - 1][j]]],
                                LAMBDA e : TreePropagator_inside(t, e.v, e.u))])
        removed(st, v, r) == [st EXCEPT !.parent[v + 1] = r.dom,
                                        !.failed = @ \/ r.state = Failed]
        RECURSIVE remove_all(_, _, _)
        remove_all(st, edges, k) ==
            IF k > Len(edges) THEN st
            ELSE remove_all(removed(st, edges[k].v,
                                    SmallDomain_remove(st.parent[edges[k].v + 1],
                                                       edges[k].u)),
                            edges, k + 1)
        out(state, nt, failed) ==
            [state |-> state, ntree |-> nt, parent |-> parent, failed |-> failed,
             pruned |-> FALSE]
        \* the last loop, dom being the immediate dominators
        dominated(ub, dom) ==
            IF \E w \in 0..n : dom[w] = UsizeMax THEN out("Normal", ub.dom, TRUE)
            ELSE remove_all([out("Normal", ub.dom, FALSE) EXCEPT !.pruned = TRUE],
                            cut(traverse_tree(tree(dom), 0)), 1)
        \* after ntree.set_ub(maxtree)
        capped(ub) ==
            IF ~ub.ok THEN out("Normal", ub.dom, TRUE)
            ELSE dominated(ub, DominatorTree_build(ext_gr))
        \* after ntree.set_lb(mintree)
        raised(lb) ==
            IF ~lb.ok THEN out("Normal", lb.dom, TRUE)
            ELSE capped(TreePropagator_tighten(lb.dom, maxtree, FALSE))
    IN  IF n = 1 THEN out("Terminated", ntree, FALSE)
        ELSE raised(TreePropagator_tighten(ntree, mintree(compute_scc(gr)), TRUE))

TreePropInit ==
    /\ \E n \in 1..TreeN : \E P \in [1..n -> (SUBSET (0..(n - 1))) \ {{}}] :
       \E T \in TreeDoms(0, n) :
           args = [fn |-> "tree_propagate",
                   ntree |-> SmallDomain_of(SmallDomain_new(0, n), T),
                   parent |-> [i \in 1..n |-> SmallDomain_of(SmallDomain_new(0, n - 1), P[i])]]
    /\ result = [done |-> FALSE]
    /\ DomIdle
    /\ SearchIdle

TreePropagate ==
    /\ args.fn = "tree_propagate"
    /\ ~result.done
    /\ result' = [done |-> TRUE, out |-> TreePropagator_propagate(args.ntree, args.parent)]
    /\ UNCHANGED <<args, domVars, searchVars>>

TreePropSpec == TreePropInit /\ [][TreePropagate]_vars

\* the edges of the extended graph on the nodes 0..n: 0 -> v+1 when v may
\* be a root, u+1 -> v+1 when u may be the parent of v
ExtEdges ==
    {<<0, v + 1>> : v \in {v \in 0..(Len(args.parent) - 1) :
                              v \in SmallDomain_iter(args.parent[v + 1])}}
    \cup {<<e[2] + 1, e[1] + 1>> :
            e \in {e \in (0..(Len(args.parent) - 1)) \X (0..(Len(args.parent) - 1)) :
                      e[1] # e[2] /\ e[2] \in SmallDomain_iter(args.parent[e[1] + 1])}}

\* a # b, and every path from the super-root 0 to b passes through a
StrictlyDominates(a, b) ==
    LET RECURSIVE avoid(_)
        avoid(R) ==
            LET R1 == R \cup {w \in 0..Len(args.parent) :
                                w # a /\ \E x \in R : <<x, w>> \in ExtEdges}
            IN  IF R1 = R THEN R ELSE avoid(R1)
    IN  a # b /\ b \notin avoid({0} \ {a})

\* the call has reached the last loop of propagate
TreePruned == args.fn = "tree_propagate" /\ result.done /\ result.out.pruned

\* the candidate edges v -> u of the call
TreeCandidates ==
    {e \in (0..(Len(args.parent) - 1)) \X (0..(Len(args.parent) - 1)) :
        e[1] # e[2] /\ e[2] \in SmallDomain_iter(args.parent[e[1] + 1])}

TreeRemoved(e) == e[2] \notin SmallDomain_iter(result.out.parent[e[1] + 1])

\* C30 as stated: u is removed from dom(parent[v]) exactly when node u+1
\* strictly dominates node v+1 in the extended graph
C30_RemovedIffParentDominates ==
    TreePruned =>
        \A e \in TreeCandidates : TreeRemoved(e) <=> StrictlyDominates(e[2] + 1, e[1] + 1)

\* C30: when the call reaches the last loop, u is removed from
\* dom(parent[v]) exactly when node v+1 strictly dominates node u+1 in the
\* extended graph rooted at the super-root 0
C30_RemovedIffChildDominates ==
    TreePruned =>
        \A e \in TreeCandidates : TreeRemoved(e) <=> StrictlyDominates(e[1] + 1, e[2] + 1)

\* a call that has removed a parent and kept another candidate
C30_Witness ==
    /\ TreePruned
    /\ \E e \in TreeCandidates : TreeRemoved(e)
    /\ \E e \in TreeCandidates : ~TreeRemoved(e)

-----------------------------------------------------------------------------
(* BinPackingPropagator: load bounds, subset-sum pruning and the lower      *)
(* bound on the number of bins.  Items and bins are numbered from 0 as in   *)
(* the code; item i is entry i + 1 of the sequences.                        *)

BinItems == 3      \* most items of one BinPackingPropagator
BinBins == 2       \* most bins
BinWeight == 3     \* largest weight of an item
BinLoad == 3       \* load domains are intervals inside 0..BinLoad

\* new() with the weights sorted and the assignment variables left in place
BinPackingPropagator_new_unpaired(assignment, load, weight) ==
    LET n == Len(weight)
        RECURSIVE sorted(_)
        sorted(S) ==
            IF S = {} THEN <<>>
            ELSE LET top == CHOOSE x \in S : \A y \in S :
                                \/ weight[x + 1] > weight[y + 1]
                                \/ (weight[x + 1] = weight[y + 1] /\ x >= y)
                 IN  <<top>> \o sorted(S \ {top})
        order0 == sorted(0..(n - 1))
    IN  [assignment |-> assignment,
         load |-> load,
         weight |-> [i \in 1..n |-> weight[order0[i] + 1]],
         total_weight |-> SeqSum(weight)]

\* new(): the weights sorted non-increasing and the assignment variables
\* permuted along, by following the cycles of the sorting permutation
BinPackingPropagator_new(assignment, load, weight) ==
    LET n == Len(weight)
        \* order.sort(); order.reverse(): by weight, then index, descending
        RECURSIVE sorted(_)
        sorted(S) ==
            IF S = {} THEN <<>>
            ELSE LET top == CHOOSE x \in S : \A y \in S :
                                \/ weight[x + 1] > weight[y + 1]
                                \/ (weight[x + 1] = weight[y + 1] /\ x >= y)
                 IN  <<top>> \o sorted(S \ {top})
        order0 == sorted(0..(n - 1))
        \* while j != i
        RECURSIVE cycle(_, _, _, _)
        cycle(st, i, k, j) ==
            IF j = i THEN [st EXCEPT !.k = k]
            ELSE cycle([st EXCEPT !.assignment[k + 1] = st.assignment[j + 1],
                                  !.assignment[j + 1] = st.assignment[k + 1],
                                  !.order[k + 1] = k],
                       i, j, st.order[j + 1])
        \* for i in 0..order.len()
        RECURSIVE place(_, _)
        place(st, i) ==
            IF i >= n THEN st
            ELSE IF i = st.order[i + 1] THEN place(st, i + 1)
            ELSE LET begin == st.assignment[i + 1]
                     c == cycle(st, i, i, st.order[i + 1])
                 IN  place([c EXCEPT !.order[c.k + 1] = c.k,
                                     !.assignment[c.k + 1] = begin], i + 1)
    IN  [assignment |-> place([assignment |-> assignment, order |-> order0, k |-> 0],
                              0).assignment,
         load |-> load,
         weight |-> [i \in 1..n |-> weight[order0[i] + 1]],
         total_weight |-> SeqSum(weight)]

\* bound(): value is the returned number; panic stands for an index out of
\* range or the division by a capacity of zero
bound(items, capacity) ==
    LET n == Len(items)
        RECURSIVE count(_, _)
        count(b, f) == IF b < n /\ f * items[b + 1] > capacity THEN count(b + 1, f) ELSE b
        big == count(0, 2)
        big2 == count(big, 3)
        \* for i in (big..big2).rev()
        RECURSIVE pair(_, _, _)
        pair(i, ff, h) ==
            IF i < big THEN h
            ELSE LET RECURSIVE skip(_)
                     skip(f) == IF f < big /\ items[f + 1] + items[i + 1] > capacity
                                THEN skip(f + 1) ELSE f
                     f1 == skip(ff)
                 IN  IF f1 < big THEN pair(i - 1, f1 + 1, h) ELSE pair(i - 1, f1, h + 1)
        h == (pair(big2 - 1, 0, 0) + 1) \div 2
        sum == SeqSum(items)
        \* for v in 0..capacity / 3 + 1
        RECURSIVE sweep(_, _)
        sweep(st, v) ==
            IF v >= (capacity \div 3) + 1 THEN st
            ELSE LET RECURSIVE left(_, _)
                     left(lptr, lsum) ==
                         IF lptr < big /\ items[lptr + 1] > capacity - v
                         THEN left(lptr + 1, lsum + items[lptr + 1])
                         ELSE [lptr |-> lptr, lsum |-> lsum]
                     RECURSIVE right(_, _)
                     right(rptr, rsum) ==
                         IF rptr >= big /\ items[rptr + 1] < v
                         THEN right(rptr - 1, rsum + items[rptr + 1])
                         ELSE [rptr |-> rptr, rsum |-> rsum]
                     l == left(st.lptr, st.lsum)
                     r == right(st.rptr, st.rsum)
                     curr == sum - l.lsum - r.rsum - capacity * (big - l.lptr + h)
                 IN  IF curr >= 0 /\ capacity = 0 THEN [st EXCEPT !.panic = TRUE]
                     ELSE sweep([lptr |-> l.lptr, lsum |-> l.lsum, rptr |-> r.rptr,
                                 rsum |-> r.rsum, panic |-> FALSE,
                                 mx |-> LET c == IF curr >= 0
                                                 THEN (curr + capacity - 1) \div capacity
                                                 ELSE 0
                                        IN  IF c > st.mx THEN c ELSE st.mx],
                                v + 1)
        last == sweep([lptr |-> 0, lsum |-> 0, rptr |-> n - 1, rsum |-> 0,
                       panic |-> FALSE, mx |-> 0], 0)
    IN  [value |-> last.mx + big + h, panic |-> last.panic]

\* the merge of unpacked and fake as the while loop of propagate does it
RECURSIVE BinPacking_merge(_, _)
BinPacking_merge(unpacked, fake) ==
    IF unpacked = <<>> /\ fake = <<>> THEN <<>>
    ELSE IF fake = <<>> \/ (unpacked # <<>> /\ Head(fake) > Head(unpacked))
    THEN <<Head(unpacked)>> \o BinPacking_merge(Tail(unpacked), fake)
    ELSE <<Head(fake)>> \o BinPacking_merge(unpacked, Tail(fake))

\* a test that also refuses the item that fills the bin exactly
BinPacking_overfull_tight(required, weight, ub) == required + weight >= ub

\* the item does not fit on top of what the bin must already hold
BinPacking_overfull(required, weight, ub) == required + weight > ub

\* propagate(): the domains after the call, failed when the failed flag was
\* set, panic when value(), an index or a division panicked
BinPackingPropagator_propagate(P) ==
    LET items == Len(P.assignment)
        bins == Len(P.load)
        w(i) == P.weight[i + 1]
        I == 0..(items - 1)
        J == 0..(bins - 1)
        a0(i) == P.assignment[i + 1]
        fixed(i) == SmallDomain_is_assigned(a0(i))
        broken == \E i \in I : fixed(i) /\ ~Variable_has_value(a0(i))
        required(j) == SortedSeq({i \in I : fixed(i) /\ Variable_value(a0(i)) = j})
        candidate(j) == SortedSeq({i \in I : ~fixed(i) /\ j \in SmallDomain_iter(a0(i))})
        weights(q) == [k \in 1..Len(q) |-> w(q[k])]
        required_sum == [j \in J |-> SeqSum(weights(required(j)))]
        possible_sum == [j \in J |-> required_sum[j] + SeqSum(weights(candidate(j)))]
        lb(st, j) == SmallDomain_get_lb(st.load[j + 1])
        ub(st, j) == SmallDomain_get_ub(st.load[j + 1])
        onLoad(st, j, r) == [st EXCEPT !.load[j + 1] = r.dom,
                                       !.failed = @ \/ r.state = Failed]
        onItem(st, i, r) == [st EXCEPT !.assignment[i + 1] = r.dom,
                                       !.failed = @ \/ r.state = Failed]
        set_lb(st, j, x) == onLoad(st, j, SmallDomain_set_lb(st.load[j + 1], x))
        set_ub(st, j, x) == onLoad(st, j, SmallDomain_set_ub(st.load[j + 1], x))
        remove(st, i, j) == onItem(st, i, SmallDomain_remove(st.assignment[i + 1], j))
        assign(st, i, j) == onItem(st, i, SmallDomain_assign(st.assignment[i + 1], j))
        \* for j in 0..bins: set_lb(required_sum[j]); set_ub(possible_sum[j])
        RECURSIVE sums(_, _)
        sums(st, j) ==
            IF j >= bins THEN st
            ELSE sums(set_ub(set_lb(st, j, required_sum[j]), j, possible_sum[j]), j + 1)
        \* the bounds from the total weight and the other bins
        RECURSIVE totals(_, _, _, _)
        totals(st, j, upper_sum, lower_sum) ==
            IF j >= bins THEN st
            ELSE totals(set_ub(set_lb(st, j, P.total_weight - upper_sum + ub(st, j)),
                               j, P.total_weight - lower_sum + lb(st, j)),
                        j + 1, upper_sum, lower_sum)
        \* for j, for i in candidate[j]: the item alone against the load
        RECURSIVE single(_, _, _)
        single(st, j, k) ==
            IF j >= bins THEN st
            ELSE IF k > Len(candidate(j)) THEN single(st, j + 1, 1)
            ELSE LET i == candidate(j)[k]
                 IN  single(IF BinPacking_overfull(required_sum[j], w(i), ub(st, j))
                            THEN remove(st, i, j)
                            ELSE IF possible_sum[j] + w(i) < lb(st, j) THEN assign(st, i, j)
                            ELSE st, j, k + 1)
        \* for j: the three no_sum tests on the load of bin j
        RECURSIVE loads(_, _)
        loads(st, j) ==
            IF j >= bins \/ st.panic \/ st.returned THEN st
            ELSE LET c == weights(candidate(j))
                     t1 == no_sum(c, lb(st, j) - required_sum[j],
                                  ub(st, j) - required_sum[j])
                     t2 == no_sum(c, lb(st, j) - required_sum[j],
                                  lb(st, j) - required_sum[j])
                     s2 == IF t2.ret THEN set_lb(st, j, required_sum[j] + t2.r1) ELSE st
                     t3 == no_sum(c, ub(s2, j) - required_sum[j],
                                  ub(s2, j) - required_sum[j])
                     s3 == IF t3.ret THEN set_ub(s2, j, required_sum[j] + t3.l1) ELSE s2
                 IN  IF t1.panic THEN [st EXCEPT !.panic = TRUE]
                     ELSE IF t1.ret THEN [st EXCEPT !.failed = TRUE, !.returned = TRUE]
                     ELSE IF t2.panic \/ t3.panic THEN [st EXCEPT !.panic = TRUE]
                     ELSE loads(s3, j + 1)
        \* for j, for (pos, i) in candidate[j]: the others without item i
        RECURSIVE others(_, _, _)
        others(st, j, k) ==
            IF j >= bins \/ st.panic THEN st
            ELSE IF k > Len(candidate(j)) THEN others(st, j + 1, 1)
            ELSE LET i == candidate(j)[k]
                     cand == SubSeq(candidate(j), 1, k - 1)
                             \o SubSeq(candidate(j), k + 1, Len(candidate(j)))
                     c == weights(cand)
                     t1 == no_sum(c, lb(st, j) - required_sum[j] - w(i),
                                  ub(st, j) - required_sum[j] - w(i))
                     t2 == no_sum(c, lb(st, j) - required_sum[j],
                                  ub(st, j) - required_sum[j])
                     s1 == IF t1.ret THEN remove(st, i, j) ELSE st
                     s2 == IF t2.ret THEN assign(s1, i, j) ELSE s1
                 IN  IF t1.panic \/ t2.panic THEN [st EXCEPT !.panic = TRUE]
                     ELSE others(s2, j, k + 1)
        \* the lower bound on the bins for the unpacked items and the
        \* space already taken
        packing(st) ==
            LET bin_capacity == SetMax({0} \cup {ub(st, j) : j \in J})
                open == SelectSeq([k \in 1..items |-> k - 1],
                                  LAMBDA i : ~SmallDomain_is_assigned(st.assignment[i + 1]))
                unpacked == weights(open)
                taken == SelectSeq([j1 \in 1..bins |->
                                       required_sum[j1 - 1] + bin_capacity - ub(st, j1 - 1)],
                                   LAMBDA x : x > 0)
                \* fake.sort(); fake.reverse()
                RECURSIVE descending(_)
                descending(q) ==
                    IF q = <<>> THEN <<>>
                    ELSE LET top == CHOOSE k \in 1..Len(q) : \A k2 \in 1..Len(q) : q[k] >= q[k2]
                         IN  <<q[top]>> \o descending(SubSeq(q, 1, top - 1)
                                                      \o SubSeq(q, top + 1, Len(q)))
                fake == descending(taken)
                \* the judgement of bound(&all, bin_capacity)
                judged(all, b) ==
                    IF b.panic THEN [st EXCEPT !.items = all, !.panic = TRUE]
                    ELSE IF b.value > bins THEN [st EXCEPT !.items = all, !.failed = TRUE]
                    ELSE [st EXCEPT !.items = all]
                bounded(all) == judged(all, bound(all, bin_capacity))
            IN  IF unpacked = <<>> /\ fake = <<>> THEN st
                ELSE bounded(BinPacking_merge(unpacked, fake))
        \* items is the list handed to bound(), empty while bound() was not called
        st0 == [assignment |-> P.assignment, load |-> P.load, failed |-> FALSE,
                panic |-> FALSE, returned |-> FALSE, items |-> <<>>]
        st1 == sums(st0, 0)
        st2 == totals(st1, 0, SeqSum([j1 \in 1..bins |-> ub(st1, j1 - 1)]),
                      SeqSum([j1 \in 1..bins |-> lb(st1, j1 - 1)]))
        st3 == single(st2, 0, 1)
        st4 == loads(st3, 0)
        st5 == others(st4, 0, 1)
    IN  IF broken THEN [st0 EXCEPT !.panic = TRUE]
        ELSE IF st4.panic \/ st4.returned THEN st4
        ELSE IF st5.panic THEN st5
        ELSE packing(st5)

LoadIntervals(lo, hi) == {lo1..hi1 : lo1 \in lo..hi, hi1 \in lo..hi} \ {{}}

\* the constraint as posted (items, load, weight), and the propagator built
\* from it; vars[k] is the posted item whose variable new() put at place k
BinPropInit ==
    /\ \E n \in 1..BinItems : \E b \in 1..BinBins :
       \E weight \in [1..n -> 1..BinWeight] :
       \E A \in [1..n -> (SUBSET (0..(b - 1))) \ {{}}] :
       \E L \in [1..b -> LoadIntervals(0, BinLoad)] :
           LET assignment == [i \in 1..n |-> SmallDomain_of(SmallDomain_new(0, b - 1), A[i])]
               load == [j \in 1..b |-> SmallDomain_of(SmallDomain_new(0, BinLoad), L[j])]
           IN  args = [fn |-> "binpacking", assignment |-> assignment, load |-> load,
                       weight |-> weight,
                       vars |-> BinPackingPropagator_new([i \in 1..n |-> i], load,
                                                         weight).assignment,
                       P |-> BinPackingPropagator_new(assignment, load, weight)]
    /\ result = [done |-> FALSE]
    /\ DomIdle
    /\ SearchIdle

BinPropagate ==
    /\ args.fn = "binpacking"
    /\ ~result.done
    /\ result' = [done |-> TRUE, out |-> BinPackingPropagator_propagate(args.P)]
    /\ UNCHANGED <<args, domVars, searchVars>>

BinPropSpec == BinPropInit /\ [][BinPropagate]_vars

\* the load of bin j when the items are packed as f says
PackedLoad(f, j) ==
    SeqSum([i \in 1..Len(args.weight) |-> IF f[i] = j THEN args.weight[i] ELSE 0])

\* the packings consistent with the domains the call started from
Packings ==
    {f \in [1..Len(args.assignment) -> 0..(Len(args.load) - 1)] :
        /\ \A i \in 1..Len(args.assignment) : f[i] \in SmallDomain_iter(args.assignment[i])
        /\ \A j \in 0..(Len(args.load) - 1) :
              PackedLoad(f, j) \in SmallDomain_iter(args.load[j + 1])}

BinPropReturned == args.fn = "binpacking" /\ result.done /\ ~result.out.panic

-----------------------------------------------------------------------------
(* The propagation queue and the flags of the propagators                   *)

\* how often propagator id is on the propagation queue
QueueCount(S, id) ==
    Cardinality({j \in 1..Len(S.propagation_queue) : S.propagation_queue[j] = id})

\* the events of propagator id whose listener map no longer holds it
Drained(S, id) ==
    {ve \in Propagator_events(S.pobj[id + 1].con) :
        id \notin S.vars[ve[1]].listeners[ve[2]]}

\* C31: the propagation queue holds every propagator at most once, and the
\* queued flag of a propagator is true iff the propagator is on the queue
C31_QueuedIffOnQueue ==
    ~Stopped =>
        \A id \in 0..(Len(search.pobj) - 1) :
            /\ QueueCount(search, id) <= 1
            /\ search.pobj[id + 1].queued <=> QueueCount(search, id) = 1

\* a propagator on the queue that two events of two variables have reached
\* (it was queued by the first), next to one that is not queued
C31_Witness ==
    /\ ~Stopped
    /\ \E id \in 0..(Len(search.pobj) - 1) :
          /\ search.pobj[id + 1].queued
          /\ \E e1, e2 \in Drained(search, id) : e1[1] # e2[1]
    /\ \E id \in 0..(Len(search.pobj) - 1) : ~search.pobj[id + 1].queued

\* C32: every propagator whose queued flag is true has has_new_events true,
\* also one that propagate() has pushed back after its own call
C32_QueuedHasNewEvents ==
    ~Stopped =>
        \A id \in 0..(Len(search.pobj) - 1) :
            search.pobj[id + 1].queued => search.pobj[id + 1].has_new_events

-----------------------------------------------------------------------------
(* The outcome of a propagation round under other orders of the queue       *)

RoundFuel == 6     \* most iterations of the loop of propagate() followed

\* one iteration of the loop of propagate() that takes the k-th entry of
\* the queue where the code takes the first
Search_propagate_any(S, k, ord) ==
    LET q == S.propagation_queue
    IN  Search_propagate(
            [S EXCEPT !.propagation_queue =
                          <<q[k]>> \o SubSeq(q, 1, k - 1) \o SubSeq(q, k + 1, Len(q))],
            ord)

\* what the frame sees of a finished round
RoundOutcome(S) ==
    IF S.pc = "panic" THEN [kind |-> "panic"]
    ELSE IF S.pc = "propfail" THEN [kind |-> "failure"]
    ELSE [kind |-> "success",
          doms |-> [v \in 1..Len(S.vars) |-> SmallDomain_iter(S.vars[v].domain)]]

\* the outcomes of the round that is at state S, over every order of the
\* listeners of an event and, when any is true, every choice of the entry
\* that is dequeued next
RECURSIVE RoundOutcomes(_, _, _)
RoundOutcomes(S, any, fuel) ==
    IF S.pc # "prop" \/ S.propagation_queue = <<>> THEN {RoundOutcome(S)}
    ELSE IF fuel = 0 THEN {[kind |-> "unfinished"]}
    ELSE UNION {RoundOutcomes(Search_propagate_any(S, k, ord), any, fuel - 1) :
                   k \in IF any THEN 1..Len(S.propagation_queue) ELSE {1},
                   ord \in Orders}

\* C33: the outcome of a propagation round, failure or the domains it
\* leaves, is the same for every order in which the queued propagators are
\* dequeued
C33_RoundIsConfluent ==
    search.pc = "prop" => Cardinality(RoundOutcomes(search, TRUE, RoundFuel)) = 1

-----------------------------------------------------------------------------
(* AllDifferentACPropagator: what it removes and when it fails              *)

\* the assignments of pairwise distinct values from the domains of the call
AllDiffAssignments ==
    {f \in [1..Len(args.doms) -> 0..MaxVal] :
        /\ \A i \in 1..Len(args.doms) : f[i] \in SmallDomain_iter(args.doms[i])
        /\ \A i, j \in 1..Len(args.doms) : i # j => f[i] # f[j]}

\* C34: AllDifferentACPropagator.propagate removes a value a from dom(v)
\* only if no assignment of pairwise distinct values gives v the value a,
\* and it signals failure exactly when no such assignment exists
C34_AllDiffPrunesOnlyUnsupported ==
    (args.fn = "alldifferent" /\ result.done /\ ~result.out.panic) =>
        /\ \A i \in 1..Len(args.doms) :
              \A a \in SmallDomain_iter(args.doms[i]) \ Left(i) :
                  \A f \in AllDiffAssignments : f[i] # a
        /\ result.out.failed <=> AllDiffAssignments = {}

\* a call on two variables that has an assignment and removes a value
C34_Witness ==
    /\ args.fn = "alldifferent" /\ result.done /\ ~result.out.panic
    /\ ~result.out.failed /\ AllDiffAssignments # {}
    /\ Len(args.doms) = 2
    /\ \E i \in 1..2 : Left(i) # SmallDomain_iter(args.doms[i])

-----------------------------------------------------------------------------
(* Checkpoints and rollbacks of the search                                  *)

\* the loop of next() has found the stack empty
TreeExhausted == search.pc = "loop" /\ search.stack = <<>>

\* every variable is back at the interval it was created with, with no
\* checkpoint left open
Balanced ==
    \A v \in 1..Len(search.vars) :
        /\ search.vars[v].domain.checkpoints = <<>>
        /\ SmallDomain_iter(search.vars[v].domain) = model.doms[v][1]..model.doms[v][2]

\* next() has called rollback() on a variable that has no open checkpoint
\* (checkpoints.pop().unwrap() panics)
RollbackUnderflow == search.pc = "panic" /\ ~Search_can_rollback_all(search)

\* C35: when the search stack becomes empty every variable has no open
\* checkpoint and the domain it had when the search was created, and
\* rollback is never called on a variable without an open checkpoint
C35_CheckpointsBalanced ==
    /\ TreeExhausted => Balanced
    /\ ~RollbackUnderflow

-----------------------------------------------------------------------------
(* The two representations side by side: SmallDomain and BitsetDomain are
   created over the same interval and receive the same calls *)

EquivVals == (SmallStart - 1)..(SmallStart + SmallSpan + 1)

EquivInit ==
    /\ sd = SmallDomain_new(SmallStart, SmallStart + SmallSpan)
    /\ bd = BitsetDomain_new(SmallStart, SmallStart + SmallSpan)
    /\ snaps = <<>>
    /\ dlast = [op |-> "new", which |-> "both", small |-> Same, bitset |-> Same]
    /\ CallIdle
    /\ SearchIdle

\* the two domains have answered alike so far and are both usable
EquivLive ==
    /\ dlast.which = "both"
    /\ dlast.small = dlast.bitset
    /\ dlast.small # "Panic"
    /\ BitsetDefined(bd)

\* one call made on both representations
EquivApply(op, rs, rb) ==
    /\ EquivLive
    /\ dlast' = [op |-> op, which |-> "both", small |-> rs.state, bitset |-> rb.state]
    /\ sd' = IF rs.state = "Panic" THEN sd ELSE rs.dom
    /\ bd' = IF rb.state = "Panic" THEN bd ELSE rb.dom
    /\ UNCHANGED <<snaps, callVars, searchVars>>

EquivAssign ==
    \E x \in EquivVals :
        EquivApply("assign", SmallDomain_assign(sd, x), BitsetDomain_assign(bd, x))

EquivRemove ==
    \E x \in EquivVals :
        EquivApply("remove", SmallDomain_remove(sd, x), BitsetDomain_remove(bd, x))

EquivSetLb ==
    \E x \in EquivVals :
        EquivApply("set_lb", SmallDomain_set_lb(sd, x), BitsetDomain_set_lb(bd, x))

EquivSetUb ==
    \E x \in EquivVals :
        EquivApply("set_ub", SmallDomain_set_ub(sd, x), BitsetDomain_set_ub(bd, x))

EquivCheckpoint ==
    /\ EquivLive
    /\ Len(sd.checkpoints) < MaxLevels
    /\ sd' = SmallDomain_checkpoint(sd)
    /\ bd' = BitsetDomain_checkpoint(bd)
    /\ dlast' = [op |-> "checkpoint", which |-> "both", small |-> Same, bitset |-> Same]
    /\ UNCHANGED <<snaps, callVars, searchVars>>

EquivRollback ==
    /\ dlast.which = "both"
    /\ dlast.small = dlast.bitset
    /\ dlast.small # "Panic"
    /\ Len(sd.checkpoints) > 0
    /\ Len(bd.checkpoints) > 0
    /\ sd' = SmallDomain_rollback(sd)
    /\ bd' = BitsetDomain_rollback(bd)
    /\ dlast' = [op |-> "rollback", which |-> "both", small |-> Same, bitset |-> Same]
    /\ UNCHANGED <<snaps, callVars, searchVars>>

EquivNext ==
    \/ EquivAssign
    \/ EquivRemove
    \/ EquivSetLb
    \/ EquivSetUb
    \/ EquivCheckpoint
    \/ EquivRollback

EquivSpec == EquivInit /\ [][EquivNext]_vars

\* what the Domain trait lets a caller read from each representation
EquivObs(which) ==
    IF which = "small"
    THEN [possible |-> {x \in EquivVals : SmallDomain_possible(sd, x)},
          lb |-> SmallDomain_get_lb(sd), ub |-> SmallDomain_get_ub(sd),
          size |-> SmallDomain_size(sd), assigned |-> SmallDomain_is_assigned(sd),
          iter |-> SmallDomain_iter(sd)]
    ELSE [possible |-> {x \in EquivVals : BitsetDomain_possible(bd, x)},
          lb |-> IF BitsetDefined(bd) THEN BitsetDomain_get_lb(bd) ELSE "undefined",
          ub |-> IF BitsetDefined(bd) THEN BitsetDomain_get_ub(bd) ELSE "undefined",
          size |-> BitsetDomain_size(bd), assigned |-> BitsetDomain_is_assigned(bd),
          iter |-> BitsetDomain_iter(bd)]

\* C36: over the same initial interval of at most 64 values and the same
\* sequence of assign/remove/set_lb/set_ub/checkpoint/rollback calls, the
\* single-word and the block-bitset domain return the same result for each
\* call and afterwards expose the same possible(), get_lb(), get_ub(), size(),
\* is_assigned() and iteration (the exposed state is compared after the calls
\* that did not fail).
C36_RepresentationsAgree ==
    dlast.which = "both" =>
        /\ dlast.small = dlast.bitset
        /\ dlast.small \in {Same, Modified} => EquivObs("small") = EquivObs("bitset")

\* the two results of one call differ
C36_ResultsDiffer == dlast.which = "both" /\ dlast.small # dlast.bitset

\* the results agree and the exposed state differs
C36_StateDiffers ==
    /\ dlast.which = "both"
    /\ dlast.small = dlast.bitset
    /\ dlast.small \in {Same, Modified}
    /\ EquivObs("small") # EquivObs("bitset")

-----------------------------------------------------------------------------
(* Mandatory items of a bin *)

WideItems == 2     \* most items when three bins are posted
WideBins == 3      \* bins of the wider constraint
WideWeight == 2    \* largest weight there
WideLoad == 2      \* load domains there are intervals inside 0..WideLoad

\* the constraint posted over three bins: an item that one bin needs can
\* still have room in a second bin while a third takes the other items
BinWideInit ==
    /\ \E n \in 1..WideItems :
       \E weight \in [1..n -> 1..WideWeight] :
       \E A \in [1..n -> (SUBSET (0..(WideBins - 1))) \ {{}}] :
       \E L \in [1..WideBins -> LoadIntervals(0, WideLoad)] :
           LET assignment == [i \in 1..n |->
                                SmallDomain_of(SmallDomain_new(0, WideBins - 1), A[i])]
               load == [j \in 1..WideBins |->
                          SmallDomain_of(SmallDomain_new(0, WideLoad), L[j])]
           IN  args = [fn |-> "binpacking", assignment |-> assignment, load |-> load,
                       weight |-> weight,
                       vars |-> BinPackingPropagator_new([i \in 1..n |-> i], load,
                                                         weight).assignment,
                       P |-> BinPackingPropagator_new(assignment, load, weight)]
    /\ result = [done |-> FALSE]
    /\ DomIdle
    /\ SearchIdle

BinWideSpec == BinWideInit /\ [][BinPropagate]_vars

\* the weights of all items of the propagator that may still go to bin j
BinPossibleSum(j) ==
    SeqSum([k \in 1..Len(args.P.assignment) |->
              IF SmallDomain_possible(args.P.assignment[k], j) THEN args.P.weight[k]
              ELSE 0])

\* item k is an unassigned candidate of bin j and bin j cannot reach the lower
\* bound of its load without it
BinMandatory(k, j) ==
    /\ ~SmallDomain_is_assigned(args.P.assignment[k])
    /\ SmallDomain_possible(args.P.assignment[k], j)
    /\ BinPossibleSum(j) - args.P.weight[k] < SmallDomain_get_lb(args.P.load[j + 1])

BinAssignedTo(d, j) == SmallDomain_is_assigned(d) /\ SmallDomain_possible(d, j)

\* C37: when bin j cannot reach the lower bound of load[j] without the
\* unassigned candidate item i, a call of propagate that returns without
\* signalling failure leaves item i assigned to bin j.
C37_MandatoryItemAssigned ==
    (BinPropReturned /\ ~result.out.failed) =>
        \A k \in 1..Len(args.P.assignment) : \A j \in 0..(Len(args.P.load) - 1) :
            BinMandatory(k, j) => BinAssignedTo(result.out.assignment[k], j)

\* a call that returns without failure on an input with a mandatory item
C37_MandatoryCase ==
    /\ BinPropReturned
    /\ ~result.out.failed
    /\ \E k \in 1..Len(args.P.assignment) : \E j \in 0..(Len(args.P.load) - 1) :
          BinMandatory(k, j)

-----------------------------------------------------------------------------
(* Construction of the propagator from the constraint *)

NewItems == 4      \* most items of the constraint a propagator is built from

\* a BinPackingConstraint; assignment[i] stands for the variable of item i
BinNewInit ==
    /\ \E n \in 1..NewItems : \E weight \in [1..n -> 1..BinWeight] :
          args = [fn |-> "create_propagators", assignment |-> [i \in 1..n |-> i],
                  weight |-> weight]
    /\ result = [done |-> FALSE]
    /\ DomIdle
    /\ SearchIdle

\* create_propagators(): new() works on clones of the constraint's vectors,
\* which the constraint keeps
BinCreatePropagators ==
    /\ args.fn = "create_propagators"
    /\ ~result.done
    /\ result' = [done |-> TRUE,
                  out |-> [assignment |-> args.assignment, weight |-> args.weight,
                           P |-> BinPackingPropagator_new(args.assignment, <<>>,
                                                          args.weight)]]
    /\ UNCHANGED <<args, domVars, searchVars>>

BinNewSpec == BinNewInit /\ [][BinCreatePropagators]_vars

BinCreated == args.fn = "create_propagators" /\ result.done

\* C38: new() leaves the weights in non-increasing order and the assignment
\* variables permuted the same way: every variable of the constraint occurs
\* once in the propagator, next to the weight it was posted with, also when
\* weights are equal; the vectors of the constraint keep their order.
C38_PairsKeptTogether ==
    BinCreated =>
        LET P == result.out.P
            n == Len(args.weight)
        IN  /\ Len(P.weight) = n /\ Len(P.assignment) = n
            /\ \A k \in 1..(n - 1) : P.weight[k] >= P.weight[k + 1]
            /\ \A v \in 1..n : Cardinality({k \in 1..n : P.assignment[k] = v}) = 1
            /\ \A k \in 1..n : P.weight[k] = args.weight[P.assignment[k]]
            /\ result.out.assignment = args.assignment
            /\ result.out.weight = args.weight

\* four items, two of them of equal weight, that new() had to reorder
C38_Witness ==
    /\ BinCreated
    /\ Len(args.weight) = NewItems
    /\ \E i, k \in 1..NewItems : i # k /\ args.weight[i] = args.weight[k]
    /\ result.out.P.assignment # args.assignment
    /\ result.out.P.weight # args.weight

-----------------------------------------------------------------------------
(* The items handed to the lower bound on the number of bins *)

NonIncreasing(q) == \A k \in 1..(Len(q) - 1) : q[k] >= q[k + 1]

\* bound() was called in the call of propagate
BinBounded == args.fn = "binpacking" /\ result.done /\ result.out.items # <<>>

\* C39: the list that propagate hands to bound(), the weights of the
\* unassigned items merged with the fake items of the bins, is in
\* non-increasing order.
C39_BoundItemsNonIncreasing == BinBounded => NonIncreasing(result.out.items)

\* bound() was called on a list that holds both an item and a fake item of
\* different sizes
C39_MergedCase ==
    /\ BinBounded
    /\ \E k \in 1..Len(args.P.assignment) :
          ~SmallDomain_is_assigned(result.out.assignment[k])
    /\ Len(result.out.items) >
         Cardinality({k \in 1..Len(args.P.assignment) :
                         ~SmallDomain_is_assigned(result.out.assignment[k])})
    /\ \E k \in 1..Len(result.out.items) : result.out.items[k] # result.out.items[1]

====
